---------------------------- MODULE Spec2Model ----------------------------
(***************************************************************************)
(* A model of the website contact parser (backend/parser.py,               *)
(* backend/sitemap_parser.py, backend/form_analyzer.py, backend/app.py,    *)
(* backend/batch_parser.py, backend/task_service.py).                      *)
(*                                                                         *)
(* Strings are sequences of symbols.  A symbol is a short piece of text    *)
(* that the inputs never split ("contact", "/", "a.com", ".pdf"); the      *)
(* string operations of the code (in, ==, endswith, split, lower, len,     *)
(* sorted) are computed on these sequences the way Python computes them    *)
(* on characters.  The alphabet is chosen so that the two agree: no page   *)
(* keyword lies inside another symbol or across two symbols of an input.   *)
(***************************************************************************)
EXTENDS Integers, Sequences, FiniteSets, TLC

None == "None"

(***************************************************************************)
(* Strings                                                                 *)
(***************************************************************************)

\* str.lower() on one symbol
LowerSym(c) ==
    CASE c = "Contact" -> "contact"
      [] c = ".PDF"    -> ".pdf"
      [] c = ".PNG"    -> ".png"
      [] c = "Example" -> "example"
      [] c = "Info"    -> "info"
      [] c = "NoReply" -> "noreply"
      [] c = "Sample"  -> "sample"
      [] OTHER         -> c

\* str.lower()
Lower(s) == [i \in 1..Len(s) |-> LowerSym(s[i])]

\* len(s): the number of characters
RECURSIVE StrLen(_)
StrLen(s) == IF s = <<>> THEN 0 ELSE Len(Head(s)) + StrLen(Tail(s))

\* s.endswith(t)
EndsWith(s, t) ==
    /\ Len(t) <= Len(s)
    /\ SubSeq(s, Len(s) - Len(t) + 1, Len(s)) = t

\* t in s
Contains(t, s) ==
    \E i \in 1..(Len(s) - Len(t) + 1) : SubSeq(s, i, i + Len(t) - 1) = t

\* s.find(c) for a one-symbol c, 1-based; 0 when absent
IndexOf(s, c) ==
    IF \E i \in 1..Len(s) : s[i] = c
    THEN CHOOSE i \in 1..Len(s) : s[i] = c /\ \A j \in 1..(i - 1) : s[j] # c
    ELSE 0

\* s.rfind(c), 1-based; 0 when absent
LastIndexOf(s, c) ==
    IF \E i \in 1..Len(s) : s[i] = c
    THEN CHOOSE i \in 1..Len(s) : s[i] = c /\ \A j \in (i + 1)..Len(s) : s[j] # c
    ELSE 0

\* s.split('/')[-1]
LastSegment(s) == SubSeq(s, LastIndexOf(s, "/") + 1, Len(s))

\* s.rstrip('/')
RECURSIVE RStripSlash(_)
RStripSlash(s) ==
    IF s # <<>> /\ s[Len(s)] = "/" THEN RStripSlash(SubSeq(s, 1, Len(s) - 1)) ELSE s


(***************************************************************************)
(* The alphabet, in code point order (the order Python's sorted() uses).   *)
(* The "cyr_" symbols stand for the Cyrillic keywords of config.py, which  *)
(* sort after every ASCII symbol.                                          *)
(***************************************************************************)
SymOrder ==
    << "-us", ".PDF", ".PNG", ".com", ".org", ".pdf", ".png", "/",
       "0", "1", "2", "3", "4", "5", "6", "7", "8", "9",
       ":", "://", "?", "@", "Contact", "Example", "Info", "NoReply", "Sample",
       "a.com", "about", "ads", "advertise", "advertisements", "advertising",
       "b.com", "collaborate", "contact", "contacts", "cooperation",
       "email", "example", "feedback", "ftp", "help", "http", "https", "info",
       "kontakt", "kontakty", "localhost", "logo", "mail", "mailto", "noreply",
       "o-nas", "p",
       "partner", "partners", "partnership", "partnerstvo",
       "pochta", "podderzhka", "sales", "sample",
       "sitemap", "sitemap.xml", "sitemap_index.xml", "sitemaps.xml",
       "sm1.xml", "sm2.xml", "sm3.xml", "sm4.xml", "sm5.xml",
       "sub.", "subject=hi", "support", "team", "test",
       "cyr_kontakty", "cyr_o-nas", "cyr_partnerstvo", "cyr_podderzhka",
       "cyr_pochta", "cyr_reklama", "cyr_reklamodatelyam", "cyr_svyazatsya" >>

SymRank == [c \in {SymOrder[i] : i \in 1..Len(SymOrder)} |->
               CHOOSE i \in 1..Len(SymOrder) : SymOrder[i] = c]

\* a < b, as Python compares two strings
RECURSIVE StrLess(_, _)
StrLess(a, b) ==
    IF b = <<>> THEN FALSE
    ELSE IF a = <<>> THEN TRUE
    ELSE IF Head(a) = Head(b) THEN StrLess(Tail(a), Tail(b))
    ELSE SymRank[Head(a)] < SymRank[Head(b)]

\* sorted(list(S))
Sorted(S) ==
    LET before == [x \in S |-> Cardinality({y \in S : StrLess(y, x)})]
    IN  [i \in 1..Cardinality(S) |-> CHOOSE x \in S : before[x] = i - 1]

DigitSym == <<"0", "1", "2", "3", "4", "5", "6", "7", "8", "9">>

\* the decimal digits of n, w of them
Digits(n, w) == [i \in 1..w |-> DigitSym[((n \div (10 ^ (w - i))) % 10) + 1]]

(***************************************************************************)
(* config.py                                                               *)
(***************************************************************************)
GroupNames == <<"contact", "about", "support", "mail", "ads">>

KEYWORD_GROUPS ==
    [ contact |-> << <<"contact">>, <<"contacts">>, <<"kontakt">>, <<"kontakty">>,
                     <<"cyr_svyazatsya">>, <<"cyr_kontakty">>, <<"feedback">> >>,
      about   |-> << <<"about">>, <<"o-nas">>, <<"cyr_o-nas">> >>,
      support |-> << <<"support">>, <<"help">>, <<"podderzhka">>, <<"cyr_podderzhka">> >>,
      mail    |-> << <<"mail">>, <<"email">>, <<"pochta">>, <<"cyr_pochta">> >>,
      ads     |-> << <<"ads">>, <<"advertisements">>, <<"advertise">>, <<"advertising">>,
                     <<"cyr_reklama">>, <<"cyr_reklamodatelyam">>, <<"partner">>,
                     <<"partners">>, <<"partnership">>, <<"partnerstvo">>,
                     <<"cyr_partnerstvo">>, <<"collaborate">>, <<"cooperation">> >> ]

SeqRange(s) == {s[i] : i \in 1..Len(s)}

ALL_PAGE_KEYWORDS ==
    UNION {SeqRange(KEYWORD_GROUPS[GroupNames[g]]) : g \in 1..Len(GroupNames)}

COMMON_PATHS ==
    << <<"/", "contact">>, <<"/", "contacts">>, <<"/", "about">>, <<"/", "feedback">>,
       <<"/", "support">>, <<"/", "help">>, <<"/", "ads">>, <<"/", "advertisements">>,
       <<"/", "advertise">>, <<"/", "advertising">>, <<"/", "partners">>,
       <<"/", "partnership">>, <<"/", "collaborate">> >>

(***************************************************************************)
(* URLs (urllib.parse)                                                     *)
(***************************************************************************)

\* urlparse(url): scheme, netloc and path; the inputs carry no params, query
\* or fragment
urlparse(url) ==
    IF Len(url) >= 2 /\ url[2] = ":"
    THEN [scheme |-> <<url[1]>>, netloc |-> <<>>, path |-> SubSeq(url, 3, Len(url))]
    ELSE IF Len(url) >= 2 /\ url[2] = "://"
    THEN LET rest  == SubSeq(url, 3, Len(url))
             slash == IndexOf(rest, "/")
         IN  [ scheme |-> <<url[1]>>,
               netloc |-> IF slash = 0 THEN rest ELSE SubSeq(rest, 1, slash - 1),
               path   |-> IF slash = 0 THEN <<>> ELSE SubSeq(rest, slash, Len(rest)) ]
    ELSE [scheme |-> <<>>, netloc |-> <<>>, path |-> url]

\* urlunparse((scheme, netloc, path, '', '', ''))
urlunparse(scheme, netloc, path) ==
    IF netloc # <<>>
    THEN (IF scheme # <<>> THEN scheme \o <<"://">> ELSE <<>>)
         \o netloc
         \o (IF path # <<>> /\ Head(path) # "/" THEN <<"/">> ELSE <<>>)
         \o path
    ELSE path

\* urljoin(base, href) for an absolute href or a path from the root
urljoin(base, href) ==
    IF urlparse(href).scheme # <<>> THEN href
    ELSE IF href = <<>> THEN base
    ELSE urlunparse(urlparse(base).scheme, urlparse(base).netloc, href)

(***************************************************************************)
(* parser.py: the pure helpers of AdvancedParser                           *)
(***************************************************************************)

\* AdvancedParser._normalize_url: one trailing slash is removed from a path
\* longer than one character
Parser_normalize_url(url) ==
    LET parsed == urlparse(url)
        path   == IF parsed.path # <<>> /\ parsed.path[Len(parsed.path)] = "/"
                     /\ StrLen(parsed.path) > 1
                  THEN SubSeq(parsed.path, 1, Len(parsed.path) - 1)
                  ELSE parsed.path
    IN  urlunparse(parsed.scheme, parsed.netloc, path)

\* the first group of KEYWORD_GROUPS, from index g on, with a keyword equal
\* to the path segment
RECURSIVE GroupOfSegment(_, _)
GroupOfSegment(path_segment, g) ==
    IF g > Len(GroupNames) THEN None
    ELSE IF \E k \in SeqRange(KEYWORD_GROUPS[GroupNames[g]]) : k = path_segment
         THEN GroupNames[g]
         ELSE GroupOfSegment(path_segment, g + 1)

\* AdvancedParser._get_url_keyword_group
_get_url_keyword_group(url) ==
    LET path_segment == LastSegment(Lower(urlparse(url).path))
        group        == GroupOfSegment(path_segment, 1)
    IN  IF group # None THEN group
        ELSE IF Contains(<<"contact", "-us">>, url) THEN "contact"
        ELSE IF Contains(<<"about", "-us">>, url) THEN "about"
        ELSE None

excluded_extensions ==
    { <<".png">>, <<".jpg">>, <<".jpeg">>, <<".gif">>, <<".pdf">>, <<".zip">>,
      <<".doc">>, <<".docx">> }

\* AdvancedParser._is_valid_url
_is_valid_url(domain_name, url) ==
    LET parsed_url == urlparse(url)
    IN  /\ EndsWith(parsed_url.netloc, domain_name)
        /\ parsed_url.scheme \in {<<"http">>, <<"https">>}
        /\ ~ \E ext \in excluded_extensions : EndsWith(Lower(url), ext)

(***************************************************************************)
(* sitemap_parser.py: the pure helpers of SitemapParser                    *)
(***************************************************************************)
MAX_SITEMAP_SIZE_MB == 10
MAX_URLS_PER_SITEMAP == 1000
MAX_SITEMAPS == 5

\* SitemapParser._normalize_url: every trailing slash is removed, an empty
\* path becomes "/"
Sitemap_normalize_url(url) ==
    LET parsed   == urlparse(url)
        stripped == RStripSlash(parsed.path)
        path     == IF stripped = <<>> THEN <<"/">> ELSE stripped
    IN  urlunparse(parsed.scheme, parsed.netloc, path)

\* SitemapParser._is_same_domain
_is_same_domain(base_url, url) == urlparse(url).netloc = urlparse(base_url).netloc

\* the subsets of T with k elements
RECURSIVE KSubsets(_, _)
KSubsets(T, k) ==
    IF k = 0 THEN {{}}
    ELSE IF Cardinality(T) < k THEN {}
    ELSE IF Cardinality(T) = k THEN {T}
    ELSE LET x == CHOOSE x \in T : TRUE
         IN  {S \cup {x} : S \in KSubsets(T \ {x}, k - 1)} \cup KSubsets(T \ {x}, k)

HasPageKeyword(url) == \E keyword \in ALL_PAGE_KEYWORDS : Contains(keyword, Lower(url))

PathLen(url) == StrLen(urlparse(url).path)

\* mutant: the keyword URLs alone are returned from 2 of them on
_prioritize_urls_early(urls) ==
    LET prioritized == {url \in urls : HasPageKeyword(url)}
        remaining   == urls \ prioritized
        room        == 50 - Cardinality(prioritized)
    IN  IF urls = {} THEN {{}}
        ELSE IF Cardinality(prioritized) >= 2 THEN {prioritized}
        ELSE IF Cardinality(remaining) <= room THEN {prioritized \cup remaining}
        ELSE LET cut   == CHOOSE l \in {PathLen(u) : u \in remaining} :
                             /\ Cardinality({u \in remaining : PathLen(u) < l}) < room
                             /\ Cardinality({u \in remaining : PathLen(u) <= l}) >= room
                 below == {u \in remaining : PathLen(u) < cut}
                 tied  == {u \in remaining : PathLen(u) = cut}
             IN  {prioritized \cup below \cup T :
                     T \in KSubsets(tied, room - Cardinality(below))}

\* SitemapParser._prioritize_urls: the sets it may return.  The remaining
\* URLs are sorted by path length; sorted() is stable and its input is the
\* iteration order of a set, so URLs of equal path length come in any order.
_prioritize_urls(urls) ==
    LET prioritized == {url \in urls : HasPageKeyword(url)}
        remaining   == urls \ prioritized
        room        == 50 - Cardinality(prioritized)
    IN  IF urls = {} THEN {{}}
        ELSE IF Cardinality(prioritized) >= 20 THEN {prioritized}
        ELSE IF Cardinality(remaining) <= room THEN {prioritized \cup remaining}
        ELSE LET cut   == CHOOSE l \in {PathLen(u) : u \in remaining} :
                             /\ Cardinality({u \in remaining : PathLen(u) < l}) < room
                             /\ Cardinality({u \in remaining : PathLen(u) <= l}) >= room
                 below == {u \in remaining : PathLen(u) < cut}
                 tied  == {u \in remaining : PathLen(u) = cut}
             IN  {prioritized \cup below \cup T :
                     T \in KSubsets(tied, room - Cardinality(below))}

(***************************************************************************)
(* The web site an instance talks to.  A site is static: the answer to a   *)
(* request depends on the URL alone.                                       *)
(*   site.url    the URL the parser is constructed with                    *)
(*   site.pages  URL -> [exc, status, links, emails, form]: exc is a       *)
(*               request that raises RequestException; links are the       *)
(*               anchors [href, text] of the page; text the words of the   *)
(*               page text; form whether it holds a contact form           *)
(*   site.docs   URL -> sitemap document [exc, status, size_mb,            *)
(*               wellformed, ns, elems], elems a sequence of [tag, loc]    *)
(***************************************************************************)
NoPage == [exc |-> FALSE, status |-> 404, links |-> {}, text |-> {}, form |-> FALSE]

NoDoc == [exc |-> FALSE, status |-> 404, size_mb |-> 0, wellformed |-> TRUE,
          ns |-> FALSE, elems |-> <<>>]

\* The page a GET of `url` asks for: a URL with an empty path is requested
\* as "/", so the URL of a host and the same URL with path "/" are one page,
\* kept in st.pages under the URL with the empty path.
RequestTarget(url) ==
    IF urlparse(url).netloc # <<>> /\ urlparse(url).path = <<"/">>
    THEN SubSeq(url, 1, Len(url) - 1)
    ELSE url

\* session.get(url) on a page
PageAt(st, url) ==
    IF RequestTarget(url) \in DOMAIN st.pages THEN st.pages[RequestTarget(url)] ELSE NoPage

\* session.get(url) on a sitemap document
DocAt(st, url) == IF url \in DOMAIN st.docs THEN st.docs[url] ELSE NoDoc

Procs == {1, 2}

VARIABLES
    site,               \* [Procs -> site]: the site of each parser instance
    skip_sitemap,       \* AdvancedParser.skip_sitemap
    entry,              \* "task": run_single_site_parsing_db; "resolver": a
                        \* direct call of get_links_from_sitemap; "off"
    pc,                 \* the position of each instance
    priority_urls,      \* the candidate set of _collect_priority_urls
    urls_to_check,      \* sorted(list(priority_urls)) of parse()
    idx,                \* the index of the visit loop, from 1
    emails,             \* AdvancedParser.emails
    contact_form_pages, \* AdvancedParser.contact_form_pages
    successful_groups,  \* AdvancedParser.successful_groups
    result,             \* what parse() returned
    sm,                 \* the state of get_links_from_sitemap
    task,               \* the task row and its parsed-site rows
    hist,               \* history: what was fetched, in order
    fa,                 \* the state of FormAnalyzer.analyze_contact_forms
    db,                 \* the tables tasks and parsed_sites
    run,                \* the background run of each task
    req,                \* the handler of DELETE /api/task/{task_id}
    bp                  \* the BatchParser of each batch run

vars == << site, skip_sitemap, entry, pc, priority_urls, urls_to_check, idx, emails,
           contact_form_pages, successful_groups, result, sm, task, hist, fa,
           db, run, req, bp >>

\* AdvancedParser.__init__: self.base_url and self.domain_name
base_url(p) == Parser_normalize_url(site[p].url)
domain_name(p) == urlparse(base_url(p)).netloc

(***************************************************************************)
(* parser.py: requests and the per-instance helpers                        *)
(***************************************************************************)

\* mutant: raise_for_status whatever ignore_errors
_make_request_strict(st, url, ignore_errors) ==
    LET response == PageAt(st, url)
    IN  IF response.exc THEN [none |-> TRUE, page |-> NoPage]
        ELSE IF response.status >= 400
             THEN [none |-> TRUE, page |-> NoPage]
             ELSE [none |-> FALSE, page |-> response]

\* AdvancedParser._make_request: the response, or none.  With ignore_errors
\* the response is returned whatever its status; without, raise_for_status
\* turns a 4xx or 5xx status into a RequestException, which yields None.
_make_request(st, url, ignore_errors) ==
    LET response == PageAt(st, url)
    IN  IF response.exc THEN [none |-> TRUE, page |-> NoPage]
        ELSE IF ~ignore_errors /\ response.status >= 400
             THEN [none |-> TRUE, page |-> NoPage]
             ELSE [none |-> FALSE, page |-> response]

\* bool(response): requests.Response.ok
ResponseOk(r) == ~r.none /\ r.page.status < 400

\* mutant: `is None` for `is not None`
_should_skip_group_never(groups, url_group) ==
    url_group = None /\ url_group \in groups

\* AdvancedParser._should_skip_group, with self.successful_groups = groups
_should_skip_group(groups, url_group) ==
    url_group # None /\ url_group \in groups

\* mutant: no group is ever marked
_mark_group_as_successful_noop(groups, url_group) ==
    IF url_group = None THEN groups \cup {url_group} ELSE groups

\* AdvancedParser._mark_group_as_successful
_mark_group_as_successful(groups, url_group) ==
    IF url_group # None THEN groups \cup {url_group} ELSE groups

\* s.split(c) for a one-symbol c
RECURSIVE Split(_, _)
Split(s, c) ==
    IF IndexOf(s, c) = 0 THEN <<s>>
    ELSE <<SubSeq(s, 1, IndexOf(s, c) - 1)>>
           \o Split(SubSeq(s, IndexOf(s, c) + 1, Len(s)), c)

\* the symbols of the alphabet that hold a '.'
DotSyms ==
    { ".PDF", ".PNG", ".com", ".org", ".pdf", ".png", "a.com", "b.com",
      "sitemap.xml", "sitemap_index.xml", "sitemaps.xml",
      "sm1.xml", "sm2.xml", "sm3.xml", "sm4.xml", "sm5.xml", "sub." }

\* '.' in s
HasDot(s) == \E i \in 1..Len(s) : s[i] \in DotSyms

\* the symbols that end with a '.' and two or more letters
TldSyms == {".PDF", ".PNG", ".com", ".org", ".pdf", ".png", "a.com", "b.com"}

\* the symbols made of the characters [a-zA-Z0-9._%+-]
NameSyms ==
    DotSyms \cup SeqRange(DigitSym)
      \cup { "-us", "Contact", "Example", "Info", "NoReply", "Sample", "about",
             "contact", "example", "info", "localhost", "logo", "mail",
             "noreply", "sales", "sample", "support", "team", "test" }

\* mutant: the list without '@example'
false_positives_short ==
    { <<".png">>, <<".jpg">>, <<".jpeg">>, <<".gif">>, <<".css">>, <<".js">>,
      <<"example", ".com">>, <<"test", "@">>, <<"noreply", "@">> }

\* false_positives of _is_valid_email
false_positives ==
    { <<".png">>, <<".jpg">>, <<".jpeg">>, <<".gif">>, <<".css">>, <<".js">>,
      <<"example", ".com">>, <<"test", "@">>, <<"@", "example">>, <<"noreply", "@">> }

\* mutant: the false positives are looked up in the address as written
_is_valid_email_cased(email) ==
    /\ Contains(<<"@">>, email)
    /\ HasDot(Split(email, "@")[2])
    /\ ~ \E fp \in false_positives : Contains(fp, email)

\* AdvancedParser._is_valid_email
_is_valid_email(email) ==
    /\ Contains(<<"@">>, email)
    /\ HasDot(Split(email, "@")[2])
    /\ ~ \E fp \in false_positives : Contains(fp, Lower(email))

\* _find_emails, lines 136-140: the addresses of the mailto anchors,
\* href.split(':')[1].split('?')[0]
MailtoAddresses(page) ==
    { Split(Split(href, ":")[2], "?")[1] :
        href \in { l.href : l \in { k \in page.links :
                     Len(k.href) >= 2 /\ k.href[1] = "mailto" /\ k.href[2] = ":" } } }

\* re.findall(email_pattern, text_content): the words of the text of the
\* form name@name.tld
TextMatches(page) ==
    { w \in page.text :
        LET at == IndexOf(w, "@")
        IN  /\ 1 < at /\ at < Len(w)
            /\ \A i \in 1..Len(w) : i # at => w[i] \in NameSyms
            /\ w[Len(w)] \in TldSyms }

\* mutant: the addresses are stored as written
_find_emails_cased(page) ==
    {e \in MailtoAddresses(page) : e # <<>> /\ _is_valid_email(e)}
      \cup {e \in TextMatches(page) : _is_valid_email(e)}

\* AdvancedParser._find_emails: the addresses the page adds to self.emails
_find_emails(page) ==
    {Lower(email) : email \in {e \in MailtoAddresses(page) : e # <<>> /\ _is_valid_email(e)}}
      \cup {Lower(email) : email \in {e \in TextMatches(page) : _is_valid_email(e)}}

\* FormAnalyzer.analyze_contact_forms
analyze_contact_forms(page) == page.form

\* the homepage links _collect_priority_urls keeps (parser.py 185-196)
HomepageLinks(p, page) ==
    { Parser_normalize_url(urljoin(base_url(p), link.href)) :
        link \in { l \in page.links :
                     /\ _is_valid_url(domain_name(p), urljoin(base_url(p), l.href))
                     /\ \E keyword \in ALL_PAGE_KEYWORDS :
                           \/ Contains(keyword, Lower(urljoin(base_url(p), l.href)))
                           \/ Contains(keyword, Lower(l.text)) } }

\* the common paths _collect_priority_urls adds (parser.py 207-208)
CommonUrls(p) ==
    { Parser_normalize_url(urljoin(base_url(p), COMMON_PATHS[i])) :
        i \in 1..Len(COMMON_PATHS) }

NoResult == [returned |-> FALSE, none |-> FALSE, emails |-> <<>>,
             contact_form_pages |-> <<>>]

(***************************************************************************)
(* sitemap_parser.py: reading one sitemap document                         *)
(***************************************************************************)

\* the interpreter's recursion limit, counted in nested _parse_sitemap calls
MaxDepth == 3

\* `elem.find('loc', namespaces) or elem.find('loc')`: the text of the loc
\* that is found, <<>> for none.  In a namespaced document the first find
\* returns the loc element, which has no children and is therefore false, and
\* the second find, without namespaces, finds nothing.
LocText(doc, elem) == IF doc.ns THEN <<>> ELSE elem.loc

ElemsOf(doc, tag) ==
    LET Wanted(e) == e.tag = tag /\ LocText(doc, e) # <<>>
    IN  SelectSeq(doc.elems, Wanted)

\* _extract_urls_from_xml, lines 113-118: the <url><loc> entries
UrlLocs(base, doc) ==
    LET found == ElemsOf(doc, "url")
        clean == {Sitemap_normalize_url(found[i].loc) : i \in 1..Len(found)}
    IN  {u \in clean : _is_same_domain(base, u)}

\* _extract_urls_from_xml, lines 121-123: the <sitemap><loc> entries, in
\* document order
SitemapLocs(doc) ==
    LET found == ElemsOf(doc, "sitemap") IN [i \in 1..Len(found) |-> found[i].loc]

\* _extract_urls_from_xml, lines 131-139: every <loc>...</loc> of the text
RegexLocs(base, doc) ==
    LET clean == {Sitemap_normalize_url(doc.elems[i].loc) :
                     i \in {j \in 1..Len(doc.elems) : doc.elems[j].loc # <<>>}}
    IN  {u \in clean : _is_same_domain(base, u)}

\* what a call of _parse_sitemap hands to its caller: either it returns
\* `urls` (push = FALSE), or the document is an index and the loop over its
\* children `rest` starts (push = TRUE), or an exception leaves it (raised).
\* parsed tells whether the document reached _extract_urls_from_xml.
Returned(urls, parsed) ==
    [push |-> FALSE, urls |-> urls, rest |-> <<>>, parsed |-> parsed, raised |-> FALSE]

Raised == [push |-> FALSE, urls |-> {}, rest |-> <<>>, parsed |-> FALSE, raised |-> TRUE]

\* _parse_sitemap, lines 80-90, on the response `doc`
ReadSitemap(base, doc) ==
    IF doc.status # 200 THEN Returned({}, FALSE)
    ELSE IF doc.size_mb > MAX_SITEMAP_SIZE_MB THEN Returned({}, FALSE)
    ELSE IF ~doc.wellformed THEN Returned(RegexLocs(base, doc), TRUE)
    ELSE IF SitemapLocs(doc) = <<>> THEN Returned(UrlLocs(base, doc), TRUE)
    ELSE [push |-> TRUE, urls |-> UrlLocs(base, doc), rest |-> SitemapLocs(doc),
          parsed |-> TRUE, raised |-> FALSE]

\* mutant: the handler of RequestException raises again
_parse_sitemap_reraise(st, base, url, depth) ==
    IF depth >= MaxDepth THEN Returned({}, FALSE)
    ELSE IF DocAt(st, url).exc THEN Raised
    ELSE ReadSitemap(base, DocAt(st, url))

\* One call of _parse_sitemap(url) made with `depth` calls already open, up
\* to its first nested call.  A request that raises is caught (lines 92-94);
\* a call beyond the recursion limit raises RecursionError inside the try
\* block, which `except Exception` (lines 95-97) turns into an empty set.
_parse_sitemap(st, base, url, depth) ==
    IF depth >= MaxDepth THEN Returned({}, FALSE)
    ELSE IF DocAt(st, url).exc THEN Returned({}, FALSE)
    ELSE ReadSitemap(base, DocAt(st, url))

\* The nested call of the innermost open index returned `nested_urls`
\* (_extract_urls_from_xml, lines 125-129): the index adds them, and returns
\* in its turn when the set holds MAX_URLS_PER_SITEMAP URLs or no child is
\* left.  done: the outermost call returned `urls`.
RECURSIVE Unwind(_, _)
Unwind(stack, nested_urls) ==
    IF stack = <<>> THEN [done |-> TRUE, urls |-> nested_urls, stack |-> <<>>]
    ELSE LET frame == stack[Len(stack)]
             urls  == frame.urls \cup nested_urls
             below == SubSeq(stack, 1, Len(stack) - 1)
         IN  IF Cardinality(urls) >= MAX_URLS_PER_SITEMAP \/ frame.rest = <<>>
             THEN Unwind(below, urls)
             ELSE [done |-> FALSE, urls |-> {},
                   stack |-> Append(below, [frame EXCEPT !.urls = urls])]

\* _find_sitemap_urls: the conventional places
PotentialSitemaps(base) ==
    { urljoin(base, <<"/", "sitemap.xml">>),
      urljoin(base, <<"/", "sitemap_index.xml">>),
      urljoin(base, <<"/", "sitemaps.xml">>),
      urljoin(base, <<"/", "sitemap", "/", "sitemap.xml">>) }

\* _find_sitemap_urls: a place is valid iff its GET answers 200
_find_sitemap_urls(st, base) ==
    {u \in PotentialSitemaps(base) : ~DocAt(st, u).exc /\ DocAt(st, u).status = 200}

NoSm == [valid_sitemaps |-> {}, pending |-> {}, all_links |-> {}, processed |-> 0,
         stack |-> <<>>, links |-> {}]

\* FormAnalyzer: no page under analysis
NoFa == [pc |-> "off", client |-> FALSE, forms |-> <<>>, i |-> 0, score |-> 0,
         log |-> <<>>, result |-> FALSE]

NoHist == [home_failed |-> FALSE, visited |-> <<>>, skipped |-> <<>>, sm_calls |-> <<>>,
           sm_parsed |-> 0, sm_probes |-> {}]

(***************************************************************************)
(* Actions.  Each is one request (or one group of probes) together with    *)
(* the computation that follows it up to the next request.                 *)
(***************************************************************************)

\* parse(), lines 254-263, once _collect_priority_urls returned `urls`
EnterLoop(p, urls) ==
    /\ priority_urls' = [priority_urls EXCEPT ![p] = urls]
    /\ IF urls = {}
       THEN /\ result' = [result EXCEPT ![p] = [returned |-> TRUE, none |-> TRUE,
                              emails |-> <<>>, contact_form_pages |-> <<>>]]
            /\ pc' = [pc EXCEPT ![p] = "returned"]
            /\ UNCHANGED <<urls_to_check, idx>>
       ELSE /\ urls_to_check' = [urls_to_check EXCEPT ![p] = Sorted(urls)]
            /\ idx' = [idx EXCEPT ![p] = 1]
            /\ pc' = [pc EXCEPT ![p] = "loop"]
            /\ UNCHANGED result

\* mutant: the links of the resolver are not merged
ResolverReturn_unmerged(p, links) ==
    IF entry[p] = "resolver"
    THEN /\ pc' = [pc EXCEPT ![p] = "resolved"]
         /\ UNCHANGED <<priority_urls, urls_to_check, idx, result>>
    ELSE EnterLoop(p, priority_urls[p] \cup CommonUrls(p))

\* get_links_from_sitemap returned `links`: _collect_priority_urls goes on
\* (lines 201-210) and parse() enters the visit loop
ResolverReturn(p, links) ==
    IF entry[p] = "resolver"
    THEN /\ pc' = [pc EXCEPT ![p] = "resolved"]
         /\ UNCHANGED <<priority_urls, urls_to_check, idx, result>>
    ELSE EnterLoop(p, priority_urls[p] \cup links \cup CommonUrls(p))

\* _collect_priority_urls, lines 171-203: the homepage request and its links
CollectHomepage(p) ==
    /\ pc[p] = "start"
    /\ LET main_page_response == _make_request(site[p], base_url(p), FALSE)
           with_links == {base_url(p)} \cup HomepageLinks(p, main_page_response.page)
       IN  IF ~ResponseOk(main_page_response)
           THEN /\ hist' = [hist EXCEPT ![p].home_failed = TRUE]
                /\ EnterLoop(p, {base_url(p)})
           ELSE IF skip_sitemap[p]
           THEN /\ EnterLoop(p, with_links \cup CommonUrls(p))
                /\ UNCHANGED hist
           ELSE /\ priority_urls' = [priority_urls EXCEPT ![p] = with_links]
                /\ pc' = [pc EXCEPT ![p] = "sm_find"]
                /\ UNCHANGED <<urls_to_check, idx, result, hist>>
    /\ UNCHANGED <<db, run, req, bp, site, fa, skip_sitemap, entry, emails, contact_form_pages,
                   successful_groups, sm, task>>

\* get_links_from_sitemap, lines 31-39: the probes of _find_sitemap_urls
FindSitemapUrls(p) ==
    /\ pc[p] = "sm_find"
    /\ LET sitemap_urls == _find_sitemap_urls(site[p], base_url(p))
           taken == IF Cardinality(sitemap_urls) < MAX_SITEMAPS
                    THEN Cardinality(sitemap_urls) ELSE MAX_SITEMAPS
       IN  IF sitemap_urls = {}
           THEN /\ sm' = [sm EXCEPT ![p] = NoSm]
                /\ ResolverReturn(p, {})
           ELSE /\ \E first \in KSubsets(sitemap_urls, taken) :
                      sm' = [sm EXCEPT ![p] = [NoSm EXCEPT !.valid_sitemaps = sitemap_urls,
                                                           !.pending = first]]
                /\ pc' = [pc EXCEPT ![p] = "sm_run"]
                /\ UNCHANGED <<priority_urls, urls_to_check, idx, result>>
    /\ hist' = [hist EXCEPT ![p].sm_probes = PotentialSitemaps(base_url(p))]
    /\ UNCHANGED <<db, run, req, bp, site, fa, skip_sitemap, entry, emails, contact_form_pages,
                   successful_groups, task>>

\* One call of _parse_sitemap: the next sitemap of the loop of
\* get_links_from_sitemap (any of the pending ones: the loop follows the
\* iteration order of a set) or the next child of the innermost open index.
ParseSitemapStep(p) ==
    /\ pc[p] = "sm_run"
    /\ LET s      == sm[p]
           nested == s.stack # <<>>
           top    == s.stack[Len(s.stack)]
       IN  \E sitemap_url \in (IF nested THEN {Head(top.rest)} ELSE s.pending) :
             LET stack1 == IF nested
                           THEN [s.stack EXCEPT ![Len(s.stack)].rest = Tail(top.rest)]
                           ELSE s.stack
                 pending1 == IF nested THEN s.pending ELSE s.pending \ {sitemap_url}
                 call == _parse_sitemap(site[p], base_url(p), sitemap_url, Len(stack1))
                 back == Unwind(stack1, call.urls)
                 all_links == s.all_links \cup back.urls
             IN  /\ hist' = [hist EXCEPT ![p].sm_calls = Append(@, sitemap_url),
                                         ![p].sm_parsed = @ + (IF call.parsed THEN 1 ELSE 0)]
                 /\ IF call.raised
                    THEN /\ pc' = [pc EXCEPT ![p] = "crashed"]
                         /\ UNCHANGED <<sm, priority_urls, urls_to_check, idx, result>>
                    ELSE IF call.push
                    THEN /\ sm' = [sm EXCEPT ![p].pending = pending1,
                                             ![p].stack = Append(stack1,
                                                 [url |-> sitemap_url, urls |-> call.urls,
                                                  rest |-> call.rest])]
                         /\ UNCHANGED <<pc, priority_urls, urls_to_check, idx, result>>
                    ELSE IF ~back.done
                    THEN /\ sm' = [sm EXCEPT ![p].pending = pending1, ![p].stack = back.stack]
                         /\ UNCHANGED <<pc, priority_urls, urls_to_check, idx, result>>
                    ELSE IF Cardinality(all_links) < MAX_URLS_PER_SITEMAP /\ pending1 # {}
                    THEN /\ sm' = [sm EXCEPT ![p].pending = pending1, ![p].stack = <<>>,
                                             ![p].all_links = all_links,
                                             ![p].processed = @ + 1]
                         /\ UNCHANGED <<pc, priority_urls, urls_to_check, idx, result>>
                    ELSE \E prioritized_links \in _prioritize_urls(all_links) :
                         /\ sm' = [sm EXCEPT ![p].pending = pending1, ![p].stack = <<>>,
                                             ![p].all_links = all_links,
                                             ![p].processed = @ + 1,
                                             ![p].links = prioritized_links]
                         /\ ResolverReturn(p, prioritized_links)
    /\ UNCHANGED <<db, run, req, bp, site, fa, skip_sitemap, entry, emails, contact_form_pages,
                   successful_groups, task>>

\* mutant: the page of every response is read
Loaded_any(response) == ~response.none

\* _process_url, lines 229-231: the response is there and its status is 200
Loaded(response) == ResponseOk(response) /\ response.page.status = 200

\* _process_url(url) on the parser state s = [emails, contact_form_pages,
\* successful_groups]: the state it leaves, whether the URL was skipped,
\* whether its page was loaded, and the value it returns (found)
_process_url(st, url, s) ==
    LET url_group == _get_url_keyword_group(url)
        skipped   == _should_skip_group(s.successful_groups, url_group)
        response  == _make_request(st, url, TRUE)
        loaded    == ~skipped /\ Loaded(response)
        emails1   == IF loaded THEN s.emails \cup _find_emails(response.page)
                     ELSE s.emails
        found_emails == Cardinality(emails1) > Cardinality(s.emails)
        found_forms  == loaded /\ analyze_contact_forms(response.page)
    IN  [ emails |-> emails1,
          contact_form_pages |->
              IF found_forms THEN s.contact_form_pages \cup {Parser_normalize_url(url)}
              ELSE s.contact_form_pages,
          successful_groups |->
              IF found_emails \/ found_forms
              THEN _mark_group_as_successful(s.successful_groups, url_group)
              ELSE s.successful_groups,
          skipped |-> skipped, loaded |-> loaded, found |-> found_emails \/ found_forms,
          none |-> response.none,
          status |-> IF response.none THEN 0 ELSE response.page.status ]

\* mutant: successful_groups as an attribute of the class, shared by the
\* instances
SharedGroups(p) == UNION {successful_groups[q] : q \in Procs}

\* self.successful_groups
OwnGroups(p) == successful_groups[p]

\* the lists parse() returns (lines 267-270)
ParseResult(s) ==
    [returned |-> TRUE, none |-> FALSE, emails |-> Sorted(s.emails),
     contact_form_pages |-> Sorted(s.contact_form_pages)]

\* One turn of the visit loop of parse(): _process_url for urls_to_check[idx];
\* after the last URL parse() returns
ProcessUrl(p) ==
    /\ pc[p] = "loop"
    /\ LET url == urls_to_check[p][idx[p]]
           s   == _process_url(site[p], url,
                               [emails |-> emails[p],
                                contact_form_pages |-> contact_form_pages[p],
                                successful_groups |-> OwnGroups(p)])
       IN  /\ emails' = [emails EXCEPT ![p] = s.emails]
           /\ contact_form_pages' = [contact_form_pages EXCEPT ![p] = s.contact_form_pages]
           /\ successful_groups' = [successful_groups EXCEPT ![p] = s.successful_groups]
           /\ hist' = IF s.skipped THEN [hist EXCEPT ![p].skipped = Append(@, url)]
                      ELSE [hist EXCEPT ![p].visited =
                               Append(@, [url |-> url, loaded |-> s.loaded,
                                          found |-> s.found, none |-> s.none,
                                          status |-> s.status])]
           /\ IF idx[p] < Len(urls_to_check[p])
              THEN /\ idx' = [idx EXCEPT ![p] = @ + 1]
                   /\ UNCHANGED <<pc, result>>
              ELSE /\ result' = [result EXCEPT ![p] = ParseResult(s)]
                   /\ pc' = [pc EXCEPT ![p] = "returned"]
                   /\ UNCHANGED idx
    /\ UNCHANGED <<db, run, req, bp, site, fa, skip_sitemap, entry, priority_urls, urls_to_check, sm, task>>

\* run_single_site_parsing_db, lines 89-122: `if results:` is false for None
\* only; add_parsed_site, then complete_task or fail_task.  An exception that
\* left parse() fails the task and adds no row.
RecordResult(p) ==
    /\ pc[p] \in {"returned", "crashed"}
    /\ task' = [task EXCEPT ![p] =
          IF pc[p] = "crashed" THEN [@ EXCEPT !.status = "FAILED"]
          ELSE IF ~result[p].none
          THEN [status |-> "COMPLETED",
                sites |-> Append(@.sites, [status |-> "success",
                                           emails |-> result[p].emails,
                                           contact_forms |-> result[p].contact_form_pages])]
          ELSE [status |-> "FAILED",
                sites |-> Append(@.sites, [status |-> "failed", emails |-> <<>>,
                                           contact_forms |-> <<>>])]]
    /\ pc' = [pc EXCEPT ![p] = "done"]
    /\ UNCHANGED <<db, run, req, bp, site, fa, skip_sitemap, entry, priority_urls, urls_to_check, idx, emails,
                   contact_form_pages, successful_groups, result, sm, hist>>

(***************************************************************************)
(* The sites the instances are run against                                 *)
(***************************************************************************)
A == <<"http", "://", "a.com">>
U(path) == A \o path

E1 == <<"info", "@", "a.com">>
E2 == <<"sales", "@", "a.com">>

Page(found, form) ==
    [exc |-> FALSE, status |-> 200, links |-> {}, text |-> found, form |-> form]
Status(code) == [NoPage EXCEPT !.status = code]
Raises == [NoPage EXCEPT !.exc = TRUE]

Link(href, text) == [href |-> href, text |-> text]

LinkSets ==
    { {},
      { Link(<<"/", "contact", "-us">>, <<>>), Link(<<"/", "team">>, <<"Contact">>),
        Link(<<"/", "Contact">>, <<>>), Link(<<"/", "p">>, <<>>) },
      { Link(<<"http", "://", "sub.", "a.com", "/", "about">>, <<>>),
        Link(<<"http", "://", "b.com", "/", "contact">>, <<>>),
        Link(<<"ftp", "://", "a.com", "/", "contact">>, <<>>) },
      { Link(<<"/", "contact", ".pdf">>, <<>>), Link(<<"/", "contact", ".PDF", "/">>, <<>>),
        Link(<<"/", "about", "/">>, <<>>) } }

\* the homepage, as the page at the base URL
HomeSets ==
    {[Page({}, FALSE) EXCEPT !.links = links] : links \in LinkSets}
        \cup {Status(500), Raises, Page({}, TRUE)}

EmptyMap == [u \in {} |-> NoPage]

PageSets ==
    { EmptyMap,
      U(<<"/", "contact">>) :> Page({E1}, TRUE) @@ U(<<"/", "contacts">>) :> Page({E2}, FALSE)
        @@ U(<<"/", "about">>) :> Page({}, TRUE),
      U(<<"/", "contact", "-us">>) :> Page({E1}, FALSE) @@ U(<<"/", "contact">>) :> Page({E2}, FALSE)
        @@ U(<<"/", "Contact">>) :> Page({E2}, TRUE) @@ U(<<"/", "team">>) :> Page({E1}, FALSE)
        @@ <<"http", "://", "sub.", "a.com", "/", "about">> :> Page({E2}, FALSE),
      U(<<"/", "contact">>) :> Status(500) @@ U(<<"/", "contacts">>) :> Raises
        @@ U(<<"/", "feedback">>) :> Page({E1}, FALSE) @@ U(<<"/", "help">>) :> Page({E1}, FALSE)
        @@ U(<<"/", "support">>) :> Page({E2}, FALSE) @@ U(<<"/", "p">>) :> Page({}, TRUE)
        @@ U(<<"/", "contact", ".pdf">>) :> Page({E2}, FALSE) }

Doc(elems) == [exc |-> FALSE, status |-> 200, size_mb |-> 1, wellformed |-> TRUE,
               ns |-> FALSE, elems |-> elems]
UrlElem(loc) == [tag |-> "url", loc |-> loc]
SitemapElem(loc) == [tag |-> "sitemap", loc |-> loc]
Gone == [NoDoc EXCEPT !.status = 404]
Broken == [NoDoc EXCEPT !.exc = TRUE]

SM0 == U(<<"/", "sitemap.xml">>)
SMI == U(<<"/", "sitemap_index.xml">>)
SMS == U(<<"/", "sitemaps.xml">>)
SMD == U(<<"/", "sitemap", "/", "sitemap.xml">>)
SM1 == U(<<"/", "sm1.xml">>)
SM2 == U(<<"/", "sm2.xml">>)
SM3 == U(<<"/", "sm3.xml">>)
SM4 == U(<<"/", "sm4.xml">>)
SM5 == U(<<"/", "sm5.xml">>)

SmallUrlset ==
    Doc(<< UrlElem(U(<<"/", "team">>)), UrlElem(<<"http", "://", "b.com", "/", "contact">>),
           UrlElem(U(<<"/", "about", "/">>)), UrlElem(<<"ftp", "://", "a.com", "/", "contact">>),
           UrlElem(U(<<"/", "contact", ".pdf">>)), UrlElem(U(<<"/", "p">>)), UrlElem(A) >>)

EmptyDocs == [u \in {} |-> NoDoc]

DocSets ==
    { EmptyDocs,
      SM0 :> SmallUrlset,
      SM0 :> [SmallUrlset EXCEPT !.ns = TRUE]
        @@ SMS :> [Doc(<<UrlElem(U(<<"/", "p">>)), SitemapElem(SM1)>>) EXCEPT !.wellformed = FALSE],
      SM0 :> Broken
        @@ SMI :> Doc(<<SitemapElem(SM1), SitemapElem(SM2), SitemapElem(SM3)>>)
        @@ SM1 :> Doc(<<UrlElem(U(<<"/", "contact", "-us">>)), UrlElem(U(<<"/", "p">>))>>)
        @@ SM2 :> Gone
        @@ SM3 :> [Doc(<<UrlElem(U(<<"/", "team">>))>>) EXCEPT !.size_mb = 11] }

MakeSite(home, pages, docs) ==
    [url |-> A, pages |-> (A :> home) @@ pages, docs |-> docs]

SpecSites == {MakeSite(h, pg, d) : h \in HomeSets, pg \in PageSets, d \in DocSets}

IdleSite == MakeSite(Status(404), EmptyMap, EmptyDocs)

NewTask == [status |-> "RUNNING", sites |-> <<>>]

(***************************************************************************)
(* Spec: one task of run_single_site_parsing_db                            *)
(***************************************************************************)
(***************************************************************************)
(* task_service.py, app.py, batch_parser.py: tasks, their background runs  *)
(* and the delete requests.  A background run is a function run in the     *)
(* thread pool: each of its database commits is one step, and the steps of *)
(* different runs and of the delete handler interleave.                    *)
(***************************************************************************)
TaskIds == {1, 2}

ParserVars == << site, skip_sitemap, entry, pc, priority_urls, urls_to_check, idx, emails,
                 contact_form_pages, successful_groups, result, sm, task, hist, fa >>

\* database.Task.  state: the row was never inserted ("none"), is stored, or
\* was deleted; completed_at and error_message: set or NULL
NoTask == [state |-> "none", task_type |-> "none", status |-> "none",
           completed_at |-> FALSE, error_message |-> FALSE]

NoDb == [tasks |-> [t \in TaskIds |-> NoTask], sites |-> <<>>]

\* TaskService.create_task: the row it commits
create_task(task_type) ==
    [state |-> "stored", task_type |-> task_type, status |-> "RUNNING",
     completed_at |-> FALSE, error_message |-> FALSE]

\* TaskService.get_task returns a row
get_task(d, task_id) == d.tasks[task_id].state = "stored"

\* TaskService.complete_task
complete_task(d, task_id) ==
    IF ~get_task(d, task_id) THEN d
    ELSE [d EXCEPT !.tasks[task_id].status = "COMPLETED",
                   !.tasks[task_id].completed_at = TRUE]

\* mutant: fail_task leaves completed_at NULL
fail_task_unstamped(d, task_id) ==
    IF ~get_task(d, task_id) THEN d
    ELSE [d EXCEPT !.tasks[task_id].status = "FAILED",
                   !.tasks[task_id].error_message = TRUE]

\* TaskService.fail_task
fail_task(d, task_id) ==
    IF ~get_task(d, task_id) THEN d
    ELSE [d EXCEPT !.tasks[task_id].status = "FAILED",
                   !.tasks[task_id].error_message = TRUE,
                   !.tasks[task_id].completed_at = TRUE]

\* TaskService.add_parsed_site: the commit of a row whose task is not stored
\* violates ForeignKey("tasks.id") and raises
add_parsed_site(d, row) ==
    IF get_task(d, row.task_id)
    THEN [raised |-> FALSE, db |-> [d EXCEPT !.sites = Append(@, row)]]
    ELSE [raised |-> TRUE, db |-> d]

\* TaskService.delete_task: the row and, by the cascade of Task.sites, its
\* parsed sites
delete_task(d, task_id) ==
    IF ~get_task(d, task_id) THEN d
    ELSE LET Kept(row) == row.task_id # task_id
         IN  [d EXCEPT !.tasks[task_id].state = "deleted",
                       !.sites = SelectSeq(@, Kept)]

NoRun == [pc |-> "off", task_type |-> "none", sites |-> <<>>, k |-> 0, then |-> "none"]

\* what the delete handler answered last: the task, the status it saw, and
\* the HTTP status of the answer
NoResponse == [task_id |-> 0, seen |-> "none", code |-> 0]

NoReq == [pc |-> "idle", task_id |-> 0, last |-> NoResponse]

NoBp == [configured |-> FALSE, skip_sitemap |-> FALSE, search_results |-> <<>>,
         unique_domains |-> <<>>, i |-> 0, all_results |-> <<>>, parsed |-> <<>>]

\* dict[key] = value on a dict kept as the sequence of its items
DictSet(items, key, value) ==
    IF \E j \in 1..Len(items) : items[j].domain = key
    THEN [j \in 1..Len(items) |->
             IF items[j].domain = key THEN [domain |-> key, status |-> value]
             ELSE items[j]]
    ELSE Append(items, [domain |-> key, status |-> value])

\* mutant: every search result is a domain of its own
RECURSIVE _extract_unique_domains_all(_)
_extract_unique_domains_all(search_results) ==
    IF search_results = <<>> THEN <<>>
    ELSE LET before == _extract_unique_domains_all(
                           SubSeq(search_results, 1, Len(search_results) - 1))
             domain == search_results[Len(search_results)]
         IN  Append(before, domain)

\* BatchParser._extract_unique_domains: the keys of the dict, in the order
\* of their first result
RECURSIVE _extract_unique_domains(_)
_extract_unique_domains(search_results) ==
    IF search_results = <<>> THEN <<>>
    ELSE LET before == _extract_unique_domains(
                           SubSeq(search_results, 1, Len(search_results) - 1))
             domain == search_results[Len(search_results)]
         IN  IF \E j \in 1..Len(before) : before[j] = domain THEN before
             ELSE Append(before, domain)

\* BatchParser._should_use_fast_mode
large_sites ==
    { <<"netflix">>, <<"youtube">>, <<"amazon">>, <<"wikipedia">>, <<"google">>,
      <<"facebook">>, <<"twitter">> }

_should_use_fast_mode(domain) == \E large \in large_sites : Contains(large, Lower(domain))

\* BatchParser._parse_domains, lines 95-118: the status of the entry, from
\* what AdvancedParser(...).parse() gave: a dict, None, or an exception
EntryStatus(outcome) ==
    CASE outcome = "dict"   -> "success"
      [] outcome = "none"   -> "failed"
      [] outcome = "raises" -> "error"

\* BatchParser.get_results: the sites, as the rows run_batch_parsing_db adds
get_results(all_results, task_id) ==
    [j \in 1..Len(all_results) |->
        [task_id |-> task_id, domain |-> all_results[j].domain,
         status |-> all_results[j].status]]

\* POST /api/parse/single: create_task and the background task
ParseSingleSite(t) ==
    /\ db.tasks[t].state = "none"
    /\ db' = [db EXCEPT !.tasks[t] = create_task("single_site")]
    /\ run' = [run EXCEPT ![t] = [NoRun EXCEPT !.pc = "start", !.task_type = "single_site"]]
    /\ UNCHANGED <<req, bp, ParserVars>>

\* POST /api/parse/batch: create_task and the background task.  configured:
\* GOOGLE_API_KEY and GOOGLE_CX are set; search_results: the domains of the
\* results the search will give
ParseBatchSites(t, configured, skip, search_results) ==
    /\ db.tasks[t].state = "none"
    /\ db' = [db EXCEPT !.tasks[t] = create_task("batch_parse")]
    /\ run' = [run EXCEPT ![t] = [NoRun EXCEPT !.pc = "start", !.task_type = "batch_parse"]]
    /\ bp' = [bp EXCEPT ![t] = [NoBp EXCEPT !.configured = configured,
                                            !.skip_sitemap = skip,
                                            !.search_results = search_results]]
    /\ UNCHANGED <<req, ParserVars>>

\* run_single_site_parsing_db, lines 75-109, up to its first commit:
\* parser.parse() gave `outcome`
RunSingleSite(t, outcome) ==
    /\ run[t].pc = "start"
    /\ run[t].task_type = "single_site"
    /\ run' = [run EXCEPT ![t] =
          IF outcome = "raises" THEN [@ EXCEPT !.pc = "fail"]
          ELSE [@ EXCEPT !.pc = "store", !.k = 1,
                         !.sites = << [task_id |-> t, domain |-> <<"a.com">>,
                                       status |-> EntryStatus(outcome)] >>,
                         !.then = IF outcome = "dict" THEN "complete" ELSE "fail"]]
    /\ UNCHANGED <<db, req, bp, ParserVars>>

\* run_batch_parsing_db, lines 137-150, and parse_from_search up to the loop
\* of _parse_domains
RunBatchSearch(t) ==
    /\ run[t].pc = "start"
    /\ run[t].task_type = "batch_parse"
    /\ IF ~bp[t].configured \/ bp[t].search_results = <<>>
       THEN /\ run' = [run EXCEPT ![t].pc = "fail"]
            /\ UNCHANGED bp
       ELSE /\ bp' = [bp EXCEPT ![t].unique_domains =
                                     _extract_unique_domains(bp[t].search_results),
                                ![t].i = 1]
            /\ run' = [run EXCEPT ![t].pc = "domains"]
    /\ UNCHANGED <<db, req, ParserVars>>

\* One turn of the loop of _parse_domains; after the last domain,
\* get_results and `if results:` of run_batch_parsing_db
ParseDomain(t, outcome) ==
    /\ run[t].pc = "domains"
    /\ LET b      == bp[t]
           domain == b.unique_domains[b.i]
           should_skip_sitemap == b.skip_sitemap \/ _should_use_fast_mode(domain)
           all_results == DictSet(b.all_results, domain, EntryStatus(outcome))
           parsed == Append(b.parsed, [domain |-> domain,
                                       skip_sitemap |-> should_skip_sitemap,
                                       outcome |-> outcome])
       IN  /\ bp' = [bp EXCEPT ![t].all_results = all_results, ![t].parsed = parsed,
                               ![t].i = @ + 1]
           /\ run' = [run EXCEPT ![t] =
                 IF b.i < Len(b.unique_domains) THEN @
                 ELSE IF all_results = <<>> THEN [@ EXCEPT !.pc = "fail"]
                 ELSE [@ EXCEPT !.pc = "store", !.k = 1,
                                !.sites = get_results(all_results, t),
                                !.then = "complete"]]
    /\ UNCHANGED <<db, req, ParserVars>>

\* task_service.add_parsed_site of the run: one commit
AddParsedSite(t) ==
    /\ run[t].pc = "store"
    /\ LET added == add_parsed_site(db, run[t].sites[run[t].k])
       IN  /\ db' = added.db
           /\ run' = [run EXCEPT ![t] =
                 IF added.raised THEN [@ EXCEPT !.pc = "fail"]
                 ELSE IF @.k < Len(@.sites) THEN [@ EXCEPT !.k = @ + 1]
                 ELSE [@ EXCEPT !.pc = run[t].then]]
    /\ UNCHANGED <<req, bp, ParserVars>>

\* task_service.complete_task of the run
CompleteTask(t) ==
    /\ run[t].pc = "complete"
    /\ db' = complete_task(db, t)
    /\ run' = [run EXCEPT ![t].pc = "done"]
    /\ UNCHANGED <<req, bp, ParserVars>>

\* task_service.fail_task of the run: the else branch or the except handler
FailTask(t) ==
    /\ run[t].pc = "fail"
    /\ db' = fail_task(db, t)
    /\ run' = [run EXCEPT ![t].pc = "done"]
    /\ UNCHANGED <<req, bp, ParserVars>>

\* mutant: a running task may be deleted
MayDelete_running(row) == row.status \in {"RUNNING", "COMPLETED", "FAILED"}

\* delete_task of app.py, lines 428-432: only finished tasks
MayDelete(row) == row.status # "RUNNING"

Answered(r, task_id, seen, code) ==
    [r EXCEPT !.pc = "idle", !.task_id = 0,
              !.last = [task_id |-> task_id, seen |-> seen, code |-> code]]

\* DELETE /api/task/{task_id}, lines 423-432: get_task and the two tests
DeleteTaskCheck(t) ==
    /\ req.pc = "idle"
    /\ req' = IF ~get_task(db, t) THEN Answered(req, t, "none", 404)
              ELSE IF ~MayDelete(db.tasks[t]) THEN Answered(req, t, db.tasks[t].status, 400)
              ELSE [req EXCEPT !.pc = "checked", !.task_id = t]
    /\ UNCHANGED <<db, run, bp, ParserVars>>

\* DELETE /api/task/{task_id}, lines 434-439: task_service.delete_task
DeleteTaskCommit ==
    /\ req.pc = "checked"
    /\ db' = delete_task(db, req.task_id)
    /\ req' = Answered(req, req.task_id,
                       IF get_task(db, req.task_id) THEN db.tasks[req.task_id].status
                       ELSE "none",
                       IF get_task(db, req.task_id) THEN 200 ELSE 404)
    /\ UNCHANGED <<run, bp, ParserVars>>

InitService ==
    /\ db = NoDb
    /\ run = [t \in TaskIds |-> NoRun]
    /\ req = NoReq
    /\ bp = [t \in TaskIds |-> NoBp]

Blank(p1, p2) == (1 :> p1) @@ (2 :> p2)

InitParser ==
    /\ priority_urls = Blank({}, {})
    /\ urls_to_check = Blank(<<>>, <<>>)
    /\ idx = Blank(0, 0)
    /\ emails = Blank({}, {})
    /\ contact_form_pages = Blank({}, {})
    /\ successful_groups = Blank({}, {})
    /\ result = Blank(NoResult, NoResult)
    /\ sm = Blank(NoSm, NoSm)
    /\ task = Blank(NewTask, NewTask)
    /\ hist = Blank(NoHist, NoHist)

InitRest ==
    /\ InitParser
    /\ fa = Blank(NoFa, NoFa)
    /\ InitService

Init ==
    /\ site \in {Blank(st, IdleSite) : st \in SpecSites}
    /\ skip_sitemap \in {Blank(skip, FALSE) : skip \in BOOLEAN}
    /\ entry = Blank("task", "off")
    /\ pc = Blank("start", "off")
    /\ InitRest

Next ==
    \E p \in Procs :
        \/ CollectHomepage(p)
        \/ FindSitemapUrls(p)
        \/ ParseSitemapStep(p)
        \/ ProcessUrl(p)
        \/ RecordResult(p)

Spec == Init /\ [][Next]_vars

(***************************************************************************)
(* Properties                                                              *)
(***************************************************************************)
Visited(p) == hist[p].visited
VisitedUrls(p) == {Visited(p)[i].url : i \in 1..Len(Visited(p))}

\* C1: when the homepage request fails, parse() returns None and no candidate
\* URL is fetched in the visit loop.
C1_HomepageFailureAborts ==
    \A p \in Procs :
        hist[p].home_failed =>
            /\ Visited(p) = <<>>
            /\ result[p].returned => result[p].none

\* C2: a single-site task whose homepage is unreachable ends FAILED, with one
\* site row of status "failed" that holds no emails and no form pages.
C2_UnreachableHomepageFailsTask ==
    \A p \in Procs :
        (hist[p].home_failed /\ pc[p] = "done") =>
            /\ task[p].status = "FAILED"
            /\ task[p].sites = << [status |-> "failed", emails |-> <<>>,
                                   contact_forms |-> <<>>] >>

\* C3: once a fetched URL has marked its keyword group successful, no URL of
\* the same group is fetched later in the visit loop.
C3_NoFetchAfterGroupSuccess ==
    \A p \in Procs :
        \A i, j \in 1..Len(Visited(p)) :
            (i < j /\ Visited(p)[i].found
                   /\ _get_url_keyword_group(Visited(p)[i].url) # None)
            => _get_url_keyword_group(Visited(p)[j].url)
                  # _get_url_keyword_group(Visited(p)[i].url)

\* C3 witness: a run that returned after it marked a group and then skipped a
\* later URL of that group.
C3_Witness ==
    \E p \in Procs :
        /\ pc[p] = "returned"
        /\ \E i \in 1..Len(Visited(p)), k \in 1..Len(hist[p].skipped) :
              /\ Visited(p)[i].found
              /\ _get_url_keyword_group(Visited(p)[i].url)
                    = _get_url_keyword_group(hist[p].skipped[k])
              /\ StrLess(Visited(p)[i].url, hist[p].skipped[k])

\* C4: every candidate URL, and every URL fetched in the visit loop, has the
\* host of the base URL, scheme http or https, and no excluded extension.
C4_CandidatesFiltered ==
    \A p \in Procs :
        \A url \in priority_urls[p] \cup VisitedUrls(p) :
            /\ urlparse(url).netloc = urlparse(base_url(p)).netloc
            /\ urlparse(url).scheme \in {<<"http">>, <<"https">>}
            /\ ~ \E ext \in excluded_extensions : EndsWith(Lower(url), ext)

(***************************************************************************)
(* SpecSitemap: one call of SitemapParser.get_links_from_sitemap            *)
(***************************************************************************)
ContactUrl(n) == U(<<"/", "contact", "/">> \o Digits(n, 4))

\* a urlset that lists ContactUrl(lo) .. ContactUrl(hi)
ContactUrlset(lo, hi) == Doc([i \in 1..(hi - lo + 1) |-> UrlElem(ContactUrl(lo + i - 1))])

\* a urlset of 51 URLs without keyword: 49 paths of 5 characters and 2 of 6
PlainUrlset ==
    Doc([i \in 1..51 |-> UrlElem(U(<<"/", "p", "/">> \o
                            (IF i <= 49 THEN Digits(i, 2) ELSE Digits(i, 3))))])

\* a urlset of 3 keyword URLs and 52 URLs without keyword: 45 paths of 5
\* characters, 4 of 6 and 3 of 7
MixedUrlset ==
    Doc([i \in 1..55 |->
            UrlElem(IF i <= 3 THEN ContactUrl(i)
                    ELSE U(<<"/", "p", "/">> \o
                           (IF i <= 48 THEN Digits(i - 3, 2)
                            ELSE IF i <= 52 THEN Digits(i - 3, 3)
                            ELSE Digits(i - 3, 4))))])

Children ==
    SM1 :> Doc(<<UrlElem(U(<<"/", "contact", "-us">>)), UrlElem(U(<<"/", "p">>))>>)
      @@ SM2 :> Gone @@ SM3 :> Broken

TopDocSets ==
    { (SM0 :> d0) @@ (SMI :> d1) @@ (SMS :> d2) @@ Children :
        d0 \in { Gone, SmallUrlset, [SmallUrlset EXCEPT !.ns = TRUE],
                 [SmallUrlset EXCEPT !.size_mb = 11],
                 [SmallUrlset EXCEPT !.wellformed = FALSE],
                 Doc(<<SitemapElem(SM1), SitemapElem(SM2)>>) },
        d1 \in { Gone, Broken, Doc(<<UrlElem(U(<<"/", "team">>))>>),
                 Doc(<<SitemapElem(SM3), SitemapElem(SM1), UrlElem(U(<<"/", "help">>))>>) },
        d2 \in { Gone, [Doc(<<UrlElem(U(<<"/", "about">>))>>) EXCEPT !.wellformed = FALSE] } }

SpecialDocSets ==
    { SM0 :> ContactUrlset(1, 1001),
      SM0 :> ContactUrlset(1, 1000) @@ SMS :> Doc(<<UrlElem(U(<<"/", "team">>))>>),
      SMI :> Doc(<<SitemapElem(SM1), SitemapElem(SM2), SitemapElem(SM3), SitemapElem(SM1)>>)
        @@ SM1 :> ContactUrlset(1, 400) @@ SM2 :> ContactUrlset(401, 800)
        @@ SM3 :> ContactUrlset(801, 1200),
      SM0 :> Doc(<<SitemapElem(SM1), SitemapElem(SM2), SitemapElem(SM3),
                   SitemapElem(SM4), SitemapElem(SM5)>>)
        @@ SM1 :> Doc(<<UrlElem(U(<<"/", "team">>))>>)
        @@ SM2 :> Doc(<<UrlElem(U(<<"/", "about">>))>>)
        @@ SM3 :> Doc(<<UrlElem(U(<<"/", "p">>))>>)
        @@ SM4 :> Doc(<<UrlElem(U(<<"/", "help">>))>>)
        @@ SM5 :> Doc(<<UrlElem(U(<<"/", "support">>))>>),
      SM0 :> Doc(<<SitemapElem(SM0)>>),
      SM0 :> Doc(<<SitemapElem(SM0), SitemapElem(SM0)>>),
      SM0 :> Doc(<<SitemapElem(SM1)>>) @@ SM1 :> Doc(<<SitemapElem(SM0)>>),
      SM0 :> PlainUrlset,
      SM0 :> MixedUrlset }

SitemapSites ==
    {MakeSite(Page({}, FALSE), EmptyMap, d) : d \in TopDocSets \cup SpecialDocSets}

InitSitemap ==
    /\ site \in {Blank(st, IdleSite) : st \in SitemapSites}
    /\ skip_sitemap = Blank(FALSE, FALSE)
    /\ entry = Blank("resolver", "off")
    /\ pc = Blank("sm_find", "off")
    /\ InitRest

NextSitemap ==
    \E p \in Procs :
        \/ FindSitemapUrls(p)
        \/ ParseSitemapStep(p)

SpecSitemap == InitSitemap /\ [][NextSitemap]_vars

\* C5: the set get_links_from_sitemap returns holds at most 1000 URLs.
C5_ResolverReturnsAtMost1000 ==
    \A p \in Procs : Cardinality(sm[p].links) <= MAX_URLS_PER_SITEMAP

\* C6: one call of the resolver fetches and parses at most 5 different
\* sitemap documents, children of sitemap indexes included.
C6_AtMostFiveSitemapsParsed ==
    \A p \in Procs :
        LET fetched == {hist[p].sm_calls[i] : i \in 1..Len(hist[p].sm_calls)}
            parsed  == {u \in fetched :
                           LET doc == DocAt(site[p], u)
                           IN  ~doc.exc /\ doc.status = 200
                                 /\ doc.size_mb <= MAX_SITEMAP_SIZE_MB}
        IN  Cardinality(parsed) <= MAX_SITEMAPS

ParsedTop(p) == sm[p].valid_sitemaps \ sm[p].pending

\* C8: no failure inside the resolver leaves it: a request that raises, a
\* status other than 200 and an oversized document count as an empty sitemap,
\* a malformed document is scanned for <loc> entries, and what the resolver
\* accumulates holds the same-domain URLs of every top-level sitemap it read.
C8_ResolverAbsorbsFailures ==
    \A p \in Procs :
        /\ pc[p] # "crashed"
        /\ pc[p] = "resolved" =>
              \A u \in ParsedTop(p) :
                  LET doc == DocAt(site[p], u)
                  IN  /\ (doc.size_mb <= MAX_SITEMAP_SIZE_MB /\ ~doc.wellformed)
                            => RegexLocs(base_url(p), doc) \subseteq sm[p].all_links
                      /\ (doc.size_mb <= MAX_SITEMAP_SIZE_MB /\ doc.wellformed)
                            => UrlLocs(base_url(p), doc) \subseteq sm[p].all_links

\* C8 witness: the resolver returned URLs although a nested sitemap raised,
\* another was oversized or answered 404, and one was malformed.
C8_Witness ==
    \E p \in Procs :
        /\ pc[p] = "resolved"
        /\ sm[p].links # {}
        /\ \E i \in 1..Len(hist[p].sm_calls) : DocAt(site[p], hist[p].sm_calls[i]).exc
        /\ \E i \in 1..Len(hist[p].sm_calls) :
              LET doc == DocAt(site[p], hist[p].sm_calls[i])
              IN  doc.status # 200 \/ doc.size_mb > MAX_SITEMAP_SIZE_MB
        /\ \E u \in ParsedTop(p) : ~DocAt(site[p], u).wellformed

(***************************************************************************)
(* SpecRerun: parse() run twice, one run after the other, on one site      *)
(***************************************************************************)
\* a site whose sitemap lists more URLs without keyword than the backfill of
\* _prioritize_urls takes; the two longest hold different addresses
TiedSite ==
    MakeSite(Page({}, FALSE),
             U(<<"/", "p", "/">> \o Digits(50, 3)) :> Page({E1}, FALSE)
               @@ U(<<"/", "p", "/">> \o Digits(51, 3)) :> Page({E2}, FALSE),
             SM0 :> PlainUrlset)

RerunSites ==
    { TiedSite }
      \cup {MakeSite(h, pg, SM0 :> SmallUrlset) : h \in HomeSets, pg \in PageSets}

InitRerun ==
    /\ site \in {Blank(st, st) : st \in RerunSites}
    /\ skip_sitemap = Blank(FALSE, FALSE)
    /\ entry = Blank("task", "task")
    /\ pc = Blank("start", "start")
    /\ InitRest

NextRerun ==
    \E p \in Procs :
        /\ p = 2 => pc[1] = "done"
        /\ \/ CollectHomepage(p)
           \/ FindSitemapUrls(p)
           \/ ParseSitemapStep(p)
           \/ ProcessUrl(p)
           \/ RecordResult(p)

SpecRerun == InitRerun /\ [][NextRerun]_vars

\* C9: two runs of parse() on the same unchanged site return the same sorted
\* list of emails and the same sorted list of contact-form pages.
C9_RerunSameResult ==
    (pc[1] = "done" /\ pc[2] \in {"returned", "done"}) => result[1] = result[2]

(***************************************************************************)
(* SpecTwo: two parser instances, their requests interleaved               *)
(***************************************************************************)
TwoSites ==
    { MakeSite(Page({}, FALSE),
               U(<<"/", "contact">>) :> Page({E1}, TRUE)
                 @@ U(<<"/", "contacts">>) :> Page({E2}, FALSE)
                 @@ U(<<"/", "about">>) :> Page({}, TRUE),
               EmptyDocs),
      MakeSite([Page({}, FALSE) EXCEPT !.links =
                   {Link(<<"/", "contact", "-us">>, <<>>), Link(<<"/", "team">>, <<"Contact">>)}],
               U(<<"/", "contact">>) :> Status(500)
                 @@ U(<<"/", "contact", "-us">>) :> Page({}, FALSE)
                 @@ U(<<"/", "about">>) :> Page({E1}, FALSE)
                 @@ U(<<"/", "help">>) :> Page({E1}, TRUE)
                 @@ U(<<"/", "support">>) :> Page({E2}, TRUE),
               SM0 :> Doc(<<UrlElem(U(<<"/", "feedback">>))>>)),
      MakeSite(Raises, EmptyMap, EmptyDocs) }

InitTwo ==
    /\ site \in {Blank(s1, s2) : s1 \in TwoSites, s2 \in TwoSites}
    /\ skip_sitemap \in {Blank(skip, skip) : skip \in BOOLEAN}
    /\ entry = Blank("task", "task")
    /\ pc = Blank("start", "start")
    /\ InitRest

SpecTwo == InitTwo /\ [][Next]_vars

\* the parser state after _process_url for urls[i], .., urls[Len(urls)] in
\* this order, from the state s, with no other instance running
RECURSIVE VisitAlone(_, _, _, _)
VisitAlone(st, urls, i, s) ==
    IF i > Len(urls) THEN s
    ELSE LET r == _process_url(st, urls[i], s)
         IN  VisitAlone(st, urls, i + 1,
                        [emails |-> r.emails,
                         contact_form_pages |-> r.contact_form_pages,
                         successful_groups |-> r.successful_groups])

\* the URLs of urls_to_check that instance p has dealt with
Processed(p) ==
    IF pc[p] = "loop" THEN SubSeq(urls_to_check[p], 1, idx[p] - 1)
    ELSE IF pc[p] \in {"returned", "done"} THEN urls_to_check[p]
    ELSE <<>>

\* C10: whatever the interleaving, the emails, contact-form pages and
\* successful groups of each instance are those it gets when it visits its
\* URLs alone, and every URL it skipped belongs to a group that its own
\* earlier visit marked.
C10_InstancesIsolated ==
    \A p \in Procs :
        LET alone == VisitAlone(site[p], Processed(p), 1,
                                [emails |-> {}, contact_form_pages |-> {},
                                 successful_groups |-> {}])
        IN  /\ emails[p] = alone.emails
            /\ contact_form_pages[p] = alone.contact_form_pages
            /\ successful_groups[p] = alone.successful_groups
            /\ pc[p] \in {"returned", "done"} => result[p] = ParseResult(alone)
            /\ \A i \in 1..Len(hist[p].skipped) :
                  \E j \in 1..Len(hist[p].visited) :
                      /\ hist[p].visited[j].found
                      /\ _get_url_keyword_group(hist[p].visited[j].url)
                            = _get_url_keyword_group(hist[p].skipped[i])

\* C10 witness: both instances returned; one of them fetched a URL of a
\* group that the other had marked successful and skipped a URL of.
C10_Witness ==
    /\ \A p \in Procs : pc[p] \in {"returned", "done"}
    /\ \E p, q \in Procs :
          \E g \in successful_groups[p] \ successful_groups[q] :
              /\ \E i \in 1..Len(hist[p].skipped) :
                    _get_url_keyword_group(hist[p].skipped[i]) = g
              /\ \E j \in 1..Len(hist[q].visited) :
                    /\ _get_url_keyword_group(hist[q].visited[j].url) = g
                    /\ hist[q].visited[j].loaded

(***************************************************************************)
(* SpecMail: one parse run, without sitemap, on pages that hold addresses  *)
(***************************************************************************)
Mailto(address) == Link(<<"mailto", ":">> \o address, <<>>)

MailPage(links, text) ==
    [exc |-> FALSE, status |-> 200, links |-> links, text |-> text, form |-> FALSE]

\* the page whose only address is <a href="mailto:info@Example.org?subject=hi">
ExampleOrgPage ==
    MailPage({Mailto(<<"info", "@", "Example", ".org", "?", "subject=hi">>)}, {})

SampleOrgPage ==
    MailPage({Mailto(<<"info", "@", "Sample", ".org", "?", "subject=hi">>)}, {})

MixedPage ==
    MailPage({ Mailto(<<"NoReply", "@", "a.com">>),
               Mailto(<<"Info", "@", "a.com", "?", "subject=hi">>),
               Mailto(<<"sales">>), Mailto(<<>>),
               Mailto(<<"sales", "@", "localhost">>),
               Link(<<"/", "team">>, <<"mail">>) },
             { <<"logo", "@", "2", ".PNG">>, <<"info", "@", "Example", ".com">>,
               <<"test", "@", "a.com">>, E2, <<"sales", "@">>, <<"@", "a.com">>,
               <<"sales", "@", "localhost">>, <<"contact">> })

ContactPages == {ExampleOrgPage, SampleOrgPage, MixedPage, MailPage({}, {})}

AboutPages ==
    { NoPage, MailPage({}, {<<"Info", "@", "a.com">>}),
      [MailPage({Mailto(E2)}, {E1}) EXCEPT !.status = 500],
      [MailPage({Mailto(E2)}, {E1}) EXCEPT !.exc = TRUE] }

MailHomes ==
    { MailPage({}, {}),
      MailPage({Mailto(<<"sales", "@", "Sample", ".org">>)},
               {<<"NoReply", "@", "Sample", ".org">>}) }

MailSite(home, contact, about) ==
    MakeSite(home, U(<<"/", "contact">>) :> contact @@ U(<<"/", "about">>) :> about,
             EmptyDocs)

ExampleOrgSite == MailSite(MailPage({}, {}), ExampleOrgPage, NoPage)

SampleOrgSite == MailSite(MailPage({}, {}), SampleOrgPage, NoPage)

MailSites ==
    {MailSite(h, c, a) : h \in MailHomes, c \in ContactPages, a \in AboutPages}

InitMail ==
    /\ site \in {Blank(st, IdleSite) : st \in MailSites}
    /\ skip_sitemap = Blank(TRUE, FALSE)
    /\ entry = Blank("task", "off")
    /\ pc = Blank("start", "off")
    /\ InitRest

NextMail ==
    \E p \in Procs :
        \/ CollectHomepage(p)
        \/ ProcessUrl(p)
        \/ RecordResult(p)

SpecMail == InitMail /\ [][NextMail]_vars

\* the pages that the visit loop of instance p loaded with status 200
LoadedPages(p) ==
    { PageAt(site[p], hist[p].visited[i].url) :
        i \in {j \in 1..Len(hist[p].visited) : hist[p].visited[j].loaded} }

\* the addresses as written in a page: mailto hrefs and matches in the text
Written(page) == MailtoAddresses(page) \cup TextMatches(page)

\* C11: no address of the email set holds a false-positive substring,
\* whatever the letter case of the address in the page.
C11_NoFalsePositiveStored ==
    \A p \in Procs : \A email \in emails[p] :
        \A fp \in false_positives : ~Contains(fp, email)

\* C11 witness: the run returned addresses from a page that also holds
\* addresses with a false-positive substring in upper or mixed case.
C11_Witness ==
    \E p \in Procs :
        /\ pc[p] = "returned"
        /\ emails[p] # {}
        /\ \E page \in LoadedPages(p) : \E raw \in Written(page) :
              /\ raw # Lower(raw)
              /\ \E fp \in false_positives : Contains(fp, Lower(raw))

\* C12: in every state each address of the email set is lowercase and is,
\* up to letter case, an address written in a mailto href or in the text of
\* a page that the visit loop of this run fetched with status 200.
C12_EmailsLowercaseFromVisitedPages ==
    \A p \in Procs : \A email \in emails[p] :
        /\ email = Lower(email)
        /\ \E page \in LoadedPages(p) :
              /\ page.status = 200
              /\ \E raw \in Written(page) : Lower(raw) = email

\* C12 witness: an address written in mixed case was stored, while a page
\* that answered 500 held an address that was not.
C12_Witness ==
    \E p \in Procs :
        /\ \E page \in LoadedPages(p) : \E raw \in Written(page) :
              raw # Lower(raw) /\ Lower(raw) \in emails[p]
        /\ \E i \in 1..Len(hist[p].visited) :
              LET page == PageAt(site[p], hist[p].visited[i].url)
              IN  /\ ~page.exc /\ page.status = 500
                  /\ \E raw \in Written(page) : Lower(raw) \notin emails[p]

\* C13 as stated: the page whose only address is the anchor
\* mailto:info@Example.org?subject=hi yields exactly info@example.org.
C13_ExampleOrgExtracted ==
    \A p \in Procs :
        (pc[p] = "returned" /\ site[p] = ExampleOrgSite)
            => emails[p] = {<<"info", "@", "example", ".org">>}

\* C13 amended: the query suffix of a mailto href is dropped and the address
\* is stored in lowercase (mailto:info@Sample.org?subject=hi yields exactly
\* info@sample.org), but info@Example.org holds the false positive
\* "@example" and is filtered: its page yields no address.
C13_ExampleOrgFiltered ==
    \A p \in Procs :
        pc[p] = "returned" =>
            /\ site[p] = ExampleOrgSite => emails[p] = {}
            /\ site[p] = SampleOrgSite
                  => emails[p] = {<<"info", "@", "sample", ".org">>}

\* C13 witness: the run on the page with mailto:info@Example.org?subject=hi
\* returned after it loaded that page.
C13_Witness ==
    \E p \in Procs :
        /\ pc[p] = "returned"
        /\ site[p] = ExampleOrgSite
        /\ ExampleOrgPage \in LoadedPages(p)

CONTACT_FORM_THRESHOLD == 5
ENABLE_AI_VERIFICATION == TRUE

\* config.FORM_KEYWORDS
FORM_KEYWORDS ==
    [ form_attributes |->
          << <<"contact">>, <<"feedback">>, <<"message">>, <<"msg">>, <<"mail">>,
             <<"form">>, <<"partner">>, <<"advertise">>, <<"collaboration">> >>,
      name |->
          << <<"name">>, <<"cyr_imya">>, <<"f", "name">>, <<"l", "name">>,
             <<"company">>, <<"cyr_kompaniya">>, <<"organization">> >>,
      email |->
          << <<"e", "mail">>, <<"e", "-", "mail">>, <<"mail">>, <<"cyr_pochta">> >>,
      message |->
          << <<"message">>, <<"msg">>, <<"cyr_soobshchenie">>, <<"text">>, <<"body">>,
             <<"comment">>, <<"proposal">>, <<"cyr_predlozhenie">>,
             <<"description">>, <<"cyr_opisanie">> >>,
      surrounding_text |->
          << <<"contact", " ", "us">>, <<"send", " ", "a", " ", "message">>,
             <<"get", " ", "in", " ", "touch">>, <<"cyr_svyazhites_s_nami">>,
             <<"advertise", " ", "with", " ", "us">>,
             <<"become", " ", "a", " ", "partner">>,
             <<"partner", "ship", " ", "inquiry">>, <<"collaboration">>,
             <<"cyr_sotrudnichestvo">>, <<"cyr_stat_partnerom">>,
             <<"cyr_reklamodatelyam">> >> ]

\* config.LLM_SCORE_MAP
LLM_SCORE_MAP == (-2 :> -5) @@ (-1 :> -2) @@ (0 :> 0) @@ (1 :> 2) @@ (2 :> 5)

\* str.lower() on the symbols of forms
LowerFormSym(c) ==
    CASE c = "E"       -> "e"
      [] c = "Message" -> "message"
      [] c = "Name"    -> "name"
      [] OTHER         -> LowerSym(c)

LowerForm(s) == [i \in 1..Len(s) |-> LowerFormSym(s[i])]

\* the number of the strings of `keywords` that lie in `text`
Hits(keywords, text) ==
    Cardinality({k \in 1..Len(keywords) : Contains(keywords[k], text)})

\* field_text of _is_contact_form (line 95)
FieldText(field) ==
    LowerForm(field.name) \o <<" ">> \o LowerForm(field.placeholder) \o <<" ">>
      \o LowerForm(field.id)

\* lines 101-105: the field counts as an email field
IsEmailField(field) ==
    \/ LowerForm(field.type) = <<"e", "mail">>
    \/ Hits(FORM_KEYWORDS.email, FieldText(field)) > 0

\* lines 109-113: the field counts as a message field
IsMessageField(field) ==
    \/ field.tag = "textarea"
    \/ Hits(FORM_KEYWORDS.message, FieldText(field)) > 0

\* lines 117-121: the field counts as a name field
IsNameField(field) == Hits(FORM_KEYWORDS.name, FieldText(field)) > 0

\* mutant: every keyword of a category that the field matches adds points
FieldScore_perkeyword(field) ==
    4 * (Hits(FORM_KEYWORDS.email, FieldText(field))
           + (IF LowerForm(field.type) = <<"e", "mail">> THEN 1 ELSE 0))
      + 3 * (Hits(FORM_KEYWORDS.message, FieldText(field))
               + (IF field.tag = "textarea" THEN 1 ELSE 0))
      + 2 * Hits(FORM_KEYWORDS.name, FieldText(field))
      + (IF Hits(<< <<"contact">>, <<"phone">>, <<"subject">> >>, FieldText(field)) > 0
         THEN 2 ELSE 0)

\* lines 98-125: what one field adds to the score
FieldScore(field) ==
    (IF IsEmailField(field) THEN 4 ELSE 0)
      + (IF IsMessageField(field) THEN 3 ELSE 0)
      + (IF IsNameField(field) THEN 2 ELSE 0)
      + (IF Hits(<< <<"contact">>, <<"phone">>, <<"subject">> >>, FieldText(field)) > 0
         THEN 2 ELSE 0)

RECURSIVE SumFields(_, _)
SumFields(fields, i) ==
    IF i > Len(fields) THEN 0 ELSE FieldScore(fields[i]) + SumFields(fields, i + 1)

has_email_field(form) == \E i \in 1..Len(form.fields) : IsEmailField(form.fields[i])
has_message_field(form) == \E i \in 1..Len(form.fields) : IsMessageField(form.fields[i])
has_name_field(form) == \E i \in 1..Len(form.fields) : IsNameField(form.fields[i])

\* mutant: no bonus for an email field with a message field
HeuristicScore_nocombo(form) ==
    2 * Hits(FORM_KEYWORDS.form_attributes, LowerForm(form.context))
      + 3 * Hits(FORM_KEYWORDS.surrounding_text, LowerForm(form.context))
      + SumFields(form.fields, 1)
      + (IF has_email_field(form) /\ has_name_field(form) THEN 2 ELSE 0)

\* _is_contact_form, lines 84-124: the score before the scorer
HeuristicScore(form) ==
    2 * Hits(FORM_KEYWORDS.form_attributes, LowerForm(form.context))
      + 3 * Hits(FORM_KEYWORDS.surrounding_text, LowerForm(form.context))
      + SumFields(form.fields, 1)
      + (IF has_email_field(form) /\ has_message_field(form) THEN 3 ELSE 0)
      + (IF has_email_field(form) /\ has_name_field(form) THEN 2 ELSE 0)

\* mutant: no upper end of the range
Uncertain_open(score) == 2 <= score

\* line 127: the score is uncertain
Uncertain(score) == 2 <= score /\ score <= 8

\* mutant: a wider range
NeedsScorer_wide(client, score) ==
    client /\ ENABLE_AI_VERIFICATION /\ 2 <= score /\ score <= 12

\* line 127: the scorer is called
NeedsScorer(client, score) == client /\ ENABLE_AI_VERIFICATION /\ Uncertain(score)

\* the value of a run of digits
RECURSIVE DigitsValue(_, _, _)
DigitsValue(content, i, acc) ==
    IF i <= Len(content) /\ content[i] \in SeqRange(DigitSym)
    THEN DigitsValue(content, i + 1, 10 * acc + (IndexOf(DigitSym, content[i]) - 1))
    ELSE acc

\* re.search(r'-?\d+', content): is there a match
HasInt(content) == \E i \in 1..Len(content) : content[i] \in SeqRange(DigitSym)

\* int(re.search(r'-?\d+', content).group())
FirstInt(content) ==
    LET first == CHOOSE i \in 1..Len(content) :
                     /\ content[i] \in SeqRange(DigitSym)
                     /\ \A j \in 1..(i - 1) : content[j] \notin SeqRange(DigitSym)
        value == DigitsValue(content, first, 0)
    IN  IF first > 1 /\ content[first - 1] = "-" THEN 0 - value ELSE value

\* mutant: the integer of the response is the delta
_verify_with_ai_raw(reply) ==
    IF reply.error THEN 0
    ELSE IF ~HasInt(reply.content) THEN 0
    ELSE FirstInt(reply.content)

\* FormAnalyzer._verify_with_ai, lines 158-183: the delta for the reply of
\* the chat completion; reply.error is an exception of the call
_verify_with_ai(reply) ==
    IF reply.error THEN 0
    ELSE IF ~HasInt(reply.content) THEN 0
    ELSE IF FirstInt(reply.content) \in DOMAIN LLM_SCORE_MAP
         THEN LLM_SCORE_MAP[FirstInt(reply.content)]
         ELSE 0

\* the chat completion was not called
NoAnswer == [error |-> FALSE, content |-> <<>>]

\* mutant: the loop over the forms goes on after a contact form
Classified_scan(a, calls, reply, delta) ==
    LET final == a.score + delta
        entry_ == [form |-> a.forms[a.i], heuristic |-> a.score, calls |-> calls,
                   reply |-> reply, delta |-> delta, final |-> final,
                   is_contact |-> final >= CONTACT_FORM_THRESHOLD]
        logged == [a EXCEPT !.log = Append(@, entry_)]
    IN  IF a.i < Len(a.forms)
        THEN [logged EXCEPT !.pc = "score", !.i = @ + 1,
                            !.result = @ \/ final >= CONTACT_FORM_THRESHOLD]
        ELSE [logged EXCEPT !.pc = "done",
                            !.result = @ \/ final >= CONTACT_FORM_THRESHOLD]

\* lines 132 and 41-46 of analyze_contact_forms: the form with the final
\* score is a contact form, or the next form is scored, or the page has none
Classified(a, calls, reply, delta) ==
    LET final == a.score + delta
        entry_ == [form |-> a.forms[a.i], heuristic |-> a.score, calls |-> calls,
                   reply |-> reply, delta |-> delta, final |-> final,
                   is_contact |-> final >= CONTACT_FORM_THRESHOLD]
        logged == [a EXCEPT !.log = Append(@, entry_)]
    IN  IF final >= CONTACT_FORM_THRESHOLD
        THEN [logged EXCEPT !.pc = "done", !.result = TRUE]
        ELSE IF a.i < Len(a.forms)
        THEN [logged EXCEPT !.pc = "score", !.i = @ + 1]
        ELSE [logged EXCEPT !.pc = "done", !.result = FALSE]

\* analyze_contact_forms, lines 38-40
AnalyzeContactForms(p) ==
    /\ fa[p].pc = "start"
    /\ fa' = [fa EXCEPT ![p] =
                 IF fa[p].forms = <<>>
                 THEN [@ EXCEPT !.pc = "done", !.result = FALSE]
                 ELSE [@ EXCEPT !.pc = "score", !.i = 1]]
    /\ UNCHANGED <<db, run, req, bp, site, skip_sitemap, entry, pc, priority_urls, urls_to_check, idx,
                   emails, contact_form_pages, successful_groups, result, sm, task,
                   hist>>

\* _is_contact_form on forms[i], up to the call of the scorer
ScoreForm(p) ==
    /\ fa[p].pc = "score"
    /\ LET score  == HeuristicScore(fa[p].forms[fa[p].i])
           scored == [fa[p] EXCEPT !.score = score]
       IN  fa' = [fa EXCEPT ![p] =
                     IF NeedsScorer(fa[p].client, score)
                     THEN [scored EXCEPT !.pc = "ai"]
                     ELSE Classified(scored, 0, NoAnswer, 0)]
    /\ UNCHANGED <<db, run, req, bp, site, skip_sitemap, entry, pc, priority_urls, urls_to_check, idx,
                   emails, contact_form_pages, successful_groups, result, sm, task,
                   hist>>

\* the chat completion answers (or fails) and _is_contact_form returns
VerifyWithAi(p, reply) ==
    /\ fa[p].pc = "ai"
    /\ fa' = [fa EXCEPT ![p] = Classified(fa[p], 1, reply, _verify_with_ai(reply))]
    /\ UNCHANGED <<db, run, req, bp, site, skip_sitemap, entry, pc, priority_urls, urls_to_check, idx,
                   emails, contact_form_pages, successful_groups, result, sm, task,
                   hist>>

(***************************************************************************)
(* SpecForm: analyze_contact_forms on the forms of a page.  Instance 1     *)
(* analyzes a form (and perhaps a second one), instance 2 the same form    *)
(* with one more field, an email field.                                    *)
(***************************************************************************)
Field(tag, type, name, placeholder, id) ==
    [tag |-> tag, type |-> type, name |-> name, placeholder |-> placeholder, id |-> id]

Form(context, fields) == [context |-> context, fields |-> fields]

EmailInput == Field("input", <<"e", "mail">>, <<>>, <<>>, <<>>)
Textarea == Field("textarea", <<>>, <<>>, <<>>, <<>>)

\* <form><input type=email><textarea></textarea></form>
EmailTextareaForm == Form(<<>>, <<EmailInput, Textarea>>)

EmailFields ==
    { EmailInput,
      Field("input", <<"text">>, <<"E", "mail">>, <<>>, <<>>),
      Field("input", <<>>, <<"your">>, <<"e", "-", "mail">>, <<"contact">>) }

SearchForm == Form(<<"search">>, <<Field("input", <<"text">>, <<"q">>, <<>>, <<>>)>>)

BaseForms ==
    { Form(<<>>, <<Textarea>>),
      Form(<<"Contact", " ", "us">>,
           <<Field("textarea", <<>>, <<"Message">>, <<>>, <<>>)>>),
      Form(<<>>, <<Field("input", <<"text">>, <<"comment">>, <<>>, <<>>)>>),
      SearchForm,
      Form(<<"form">>, <<Field("input", <<"text">>, <<"Name">>, <<>>, <<>>)>>),
      EmailTextareaForm,
      Form(<<>>, <<Textarea, Field("input", <<"text">>, <<"f", "name">>, <<>>, <<>>),
                   Field("select", <<>>, <<"subject">>, <<>>, <<>>)>>),
      Form(<<"news", "letter">>, <<EmailInput>>) }

\* the form with one more field
AddField(form, field) == [form EXCEPT !.fields = Append(@, field)]

Answer(content) == [error |-> FALSE, content |-> content]

\* what the chat completion may give: a text, or an exception
Replies ==
    { Answer(<<"2">>), Answer(<<"-", "2">>), Answer(<<"1">>), Answer(<<"-", "1">>),
      Answer(<<"0">>), Answer(<<"3">>), Answer(<<"1", "0">>), Answer(<<"yes">>),
      Answer(<<"Answer", ":", " ", "2">>), Answer(<<>>),
      [error |-> TRUE, content |-> <<>>] }

Analysis(client, forms) == [NoFa EXCEPT !.pc = "start", !.client = client, !.forms = forms]

InitForm ==
    /\ site = Blank(IdleSite, IdleSite)
    /\ skip_sitemap = Blank(FALSE, FALSE)
    /\ entry = Blank("off", "off")
    /\ pc = Blank("off", "off")
    /\ InitParser
    /\ InitService
    /\ fa \in { Blank(Analysis(client, <<form>> \o more),
                      Analysis(client, <<AddField(form, field)>>)) :
                  client \in BOOLEAN, form \in BaseForms, field \in EmailFields,
                  more \in {<<>>, <<SearchForm>>, <<EmailTextareaForm>>} }

NextForm ==
    \E p \in Procs :
        \/ AnalyzeContactForms(p)
        \/ ScoreForm(p)
        \/ \E reply \in Replies : VerifyWithAi(p, reply)

SpecForm == InitForm /\ [][NextForm]_vars

\* C15: when a form has a message field, the same form with one more field,
\* an email field, gets a final score that is not lower, with or without
\* scorer and whatever the scorer answers.
C15_EmailFieldNeverLowersScore ==
    LET f == fa[1].forms[1]
        g == fa[2].forms[1]
    IN  ( /\ fa[1].log # <<>> /\ fa[2].log # <<>>
          /\ has_message_field(f)
          /\ g.context = f.context
          /\ Len(g.fields) = Len(f.fields) + 1
          /\ SubSeq(g.fields, 1, Len(f.fields)) = f.fields
          /\ IsEmailField(g.fields[Len(g.fields)]) )
        => fa[2].log[1].final >= fa[1].log[1].final

\* C15 witness: the scorer raised the score of a form with a message field
\* by 5, and the form with the email field added was scored too.
C15_Witness ==
    /\ fa[1].log # <<>> /\ fa[2].log # <<>>
    /\ has_message_field(fa[1].forms[1])
    /\ ~has_email_field(fa[1].forms[1])
    /\ IsEmailField(fa[2].forms[1].fields[Len(fa[2].forms[1].fields)])
    /\ fa[1].log[1].calls = 1 /\ fa[1].log[1].delta = 5

\* the log entries of the form made of one <input type=email> and one
\* <textarea>
EmailTextareaEntries(p) ==
    { k \in 1..Len(fa[p].log) :
        fa[p].log[k].form \in
            {EmailTextareaForm, Form(<<>>, <<Textarea, EmailInput>>)} }

\* C16 as stated: the form of one <input type=email> and one <textarea> has
\* the heuristic score 7, and with a scorer the external call is made.
C16_EmailTextareaAsksScorer ==
    \A p \in Procs : \A k \in EmailTextareaEntries(p) :
        /\ fa[p].log[k].heuristic = 7
        /\ fa[p].client => fa[p].log[k].calls = 1

\* C16 amended: the form of one <input type=email> and one <textarea> has the
\* heuristic score 10 (4 + 3 + 3), above the range [2, 8]: no external call
\* is made, with or without scorer, and the form is a contact form.
C16_EmailTextareaScoresTen ==
    \A p \in Procs : \A k \in EmailTextareaEntries(p) :
        /\ fa[p].log[k].heuristic = 10
        /\ fa[p].log[k].calls = 0
        /\ fa[p].log[k].final = 10
        /\ fa[p].log[k].is_contact
        /\ fa[p].pc = "done" /\ fa[p].result

\* C16 witness: with a scorer, the analysis of that form ended.
C16_Witness ==
    \E p \in Procs :
        /\ fa[p].client
        /\ fa[p].forms[1] = EmailTextareaForm
        /\ fa[p].pc = "done"
        /\ EmailTextareaEntries(p) # {}

\* C17: each scored form had one external call if there is a scorer and its
\* heuristic score is in [2, 8], and none otherwise; a call is only ever
\* pending in that case.
C17_ScorerCalledOnceInRangeOnly ==
    \A p \in Procs :
        /\ \A k \in 1..Len(fa[p].log) :
              fa[p].log[k].calls =
                  (IF fa[p].client /\ 2 <= fa[p].log[k].heuristic
                        /\ fa[p].log[k].heuristic <= 8
                   THEN 1 ELSE 0)
        /\ fa[p].pc = "ai" =>
              fa[p].client /\ 2 <= fa[p].score /\ fa[p].score <= 8

\* C17 witness: with a scorer, one form of a page had its call and another
\* form of the page, out of the range, had none.
C17_Witness ==
    \E p \in Procs :
        /\ fa[p].client
        /\ \E k \in 1..Len(fa[p].log) : fa[p].log[k].calls = 1
        /\ \E k \in 1..Len(fa[p].log) : fa[p].log[k].calls = 0

\* C18: the delta of the scorer follows the table -2: -5, -1: -2, 0: 0,
\* 1: 2, 2: 5; an exception, a reply without integer and an integer outside
\* the table give 0; the form is classified in each case.
C18_ScorerDeltaFromTable ==
    \A p \in Procs : \A k \in 1..Len(fa[p].log) :
        LET l == fa[p].log[k]
        IN  /\ l.delta \in {-5, -2, 0, 2, 5}
            /\ l.final = l.heuristic + l.delta
            /\ l.is_contact <=> l.final >= 5
            /\ l.calls = 0 => l.delta = 0
            /\ l.calls = 1 =>
                  /\ l.reply.error => l.delta = 0
                  /\ l.reply = Answer(<<"-", "2">>) => l.delta = -5
                  /\ l.reply = Answer(<<"-", "1">>) => l.delta = -2
                  /\ l.reply = Answer(<<"0">>) => l.delta = 0
                  /\ l.reply = Answer(<<"1">>) => l.delta = 2
                  /\ l.reply \in {Answer(<<"2">>), Answer(<<"Answer", ":", " ", "2">>)}
                        => l.delta = 5
                  /\ l.reply \in {Answer(<<"3">>), Answer(<<"1", "0">>),
                                  Answer(<<"yes">>), Answer(<<>>)} => l.delta = 0

\* C18 witness: the scorer failed for one instance and answered 3 for the
\* other; both analyses ended.
C18_Witness ==
    /\ \A p \in Procs : fa[p].pc = "done"
    /\ \E k \in 1..Len(fa[1].log) : fa[1].log[k].calls = 1 /\ fa[1].log[k].reply.error
    /\ \E k \in 1..Len(fa[2].log) :
          fa[2].log[k].calls = 1 /\ fa[2].log[k].reply = Answer(<<"3">>)

(***************************************************************************)
(* Failed fetches in the visit loop (SpecMail)                             *)
(***************************************************************************)
\* the request of a visit failed: it raised, or the status is not 200
FailedVisit(v) == v.none \/ v.status # 200

\* C19: a visit whose request raised or whose status is not 200 leaves the
\* emails, the contact-form pages and the successful groups as they were,
\* and the loop goes on to the next URL or parse() returns its result; no
\* run returns the failure value.
C19_FailedFetchChangesNothing ==
    /\ [][\A p \in Procs :
            ( /\ Len(hist'[p].visited) = Len(hist[p].visited) + 1
              /\ FailedVisit(hist'[p].visited[Len(hist'[p].visited)]) )
            => /\ emails'[p] = emails[p]
               /\ contact_form_pages'[p] = contact_form_pages[p]
               /\ successful_groups'[p] = successful_groups[p]
               /\ \/ pc'[p] = "loop" /\ idx'[p] = idx[p] + 1
                  \/ pc'[p] = "returned" /\ idx[p] = Len(urls_to_check[p])]_vars
    /\ [](\A p \in Procs :
            pc[p] = "returned" => (result[p].returned /\ ~result[p].none))

\* C19 witness: the request of a page that holds addresses failed (it raised
\* or answered 500), a later page gave an address, and parse() returned.
C19_Witness ==
    \E p \in Procs :
        /\ pc[p] = "returned"
        /\ ~hist[p].home_failed
        /\ \E i, j \in 1..Len(hist[p].visited) :
              /\ i < j
              /\ FailedVisit(hist[p].visited[i])
              /\ Written(PageAt(site[p], hist[p].visited[i].url)) # {}
              /\ hist[p].visited[j].found

\* C20: the set that one traversal accumulates, before _prioritize_urls,
\* never holds more than 1000 URLs.
C20_AccumulatedAtMost1000 ==
    \A p \in Procs : Cardinality(sm[p].all_links) <= MAX_URLS_PER_SITEMAP

(***************************************************************************)
(* Prioritization (SpecSitemap)                                            *)
(***************************************************************************)
\* C21: what _prioritize_urls returns is a subset of its input with every
\* keyword URL; with fewer than 20 keyword URLs it has min(|input|, 50) URLs
\* and no backfilled URL has a longer path than a URL left out; with 20 or
\* more it has the keyword URLs alone.
C21_PrioritizedSubset ==
    \A p \in Procs :
        pc[p] = "resolved" =>
            LET input    == sm[p].all_links
                output   == sm[p].links
                keyword  == {u \in input : HasPageKeyword(u)}
            IN  /\ output \subseteq input
                /\ keyword \subseteq output
                /\ Cardinality(keyword) < 20 =>
                      /\ Cardinality(output)
                            = (IF Cardinality(input) < 50 THEN Cardinality(input) ELSE 50)
                      /\ \A b \in output \ keyword : \A o \in input \ output :
                            PathLen(b) <= PathLen(o)
                /\ Cardinality(keyword) >= 20 => output = keyword

\* C21 witness: of more than 50 URLs, fewer than 20 with a keyword, the
\* resolver returned the keyword URLs and a backfill, and left URLs out.
C21_Witness ==
    \E p \in Procs :
        /\ pc[p] = "resolved"
        /\ Cardinality(sm[p].all_links) > 50
        /\ \E u \in sm[p].links : HasPageKeyword(u)
        /\ \E u \in sm[p].links : ~HasPageKeyword(u)
        /\ sm[p].all_links \ sm[p].links # {}

(***************************************************************************)
(* Namespaces (SpecSitemap)                                                *)
(***************************************************************************)
\* C22: extraction does not depend on the namespace of the document: every
\* <url><loc> on the base domain of a well-formed sitemap that the resolver
\* parsed, namespaced or not, is among the URLs it collected.
C22_NamespaceTransparent ==
    \A p \in Procs :
        pc[p] = "resolved" =>
            \A u \in ParsedTop(p) :
                LET doc == DocAt(site[p], u)
                IN  (~doc.exc /\ doc.status = 200 /\ doc.size_mb <= MAX_SITEMAP_SIZE_MB
                        /\ doc.wellformed)
                    => UrlLocs(base_url(p), [doc EXCEPT !.ns = FALSE]) \subseteq sm[p].all_links

(***************************************************************************)
(* The loop over the forms of a page (SpecForm)                            *)
(***************************************************************************)
\* C23: the forms are scored in document order, each at most once; a form
\* that reaches the threshold is the last one scored, and no scorer call is
\* made for a later one; the page is a contact-form page exactly if a scored
\* form qualified, and it is none only after every form was scored.
C23_FirstContactFormEndsLoop ==
    \A p \in Procs :
        LET a == fa[p]
        IN  /\ Len(a.log) <= Len(a.forms)
            /\ \A k \in 1..Len(a.log) :
                  /\ a.log[k].form = a.forms[k]
                  /\ a.log[k].is_contact => (k = Len(a.log) /\ a.pc = "done")
            /\ a.pc \in {"score", "ai"} => a.i = Len(a.log) + 1
            /\ a.pc = "done" =>
                  /\ a.result <=> \E k \in 1..Len(a.log) : a.log[k].is_contact
                  /\ ~a.result => Len(a.log) = Len(a.forms)

\* C23 witness: the first of two forms qualified, and the analysis ended
\* without scoring the second.
C23_Witness ==
    \E p \in Procs :
        /\ fa[p].pc = "done"
        /\ fa[p].result
        /\ Len(fa[p].forms) = 2
        /\ Len(fa[p].log) = 1

\* C23 witness of the other direction: the first form failed and the second
\* one made the page a contact-form page.
C23_SecondFormQualifies ==
    \E p \in Procs :
        /\ fa[p].pc = "done"
        /\ fa[p].result
        /\ Len(fa[p].log) = 2
        /\ ~fa[p].log[1].is_contact

(***************************************************************************)
(* Field scoring (SpecForm)                                                *)
(***************************************************************************)
\* the fields of `form` that satisfy Is
FieldsThat(Is(_), form) == {i \in 1..Len(form.fields) : Is(form.fields[i])}

\* the points a form gets apart from the three categories of its fields
OtherPoints(form) ==
    2 * Hits(FORM_KEYWORDS.form_attributes, LowerForm(form.context))
      + 3 * Hits(FORM_KEYWORDS.surrounding_text, LowerForm(form.context))
      + 2 * Cardinality({i \in 1..Len(form.fields) :
              Hits(<< <<"contact">>, <<"phone">>, <<"subject">> >>,
                   FieldText(form.fields[i])) > 0})
      + (IF has_email_field(form) /\ has_message_field(form) THEN 3 ELSE 0)
      + (IF has_email_field(form) /\ has_name_field(form) THEN 2 ELSE 0)

\* C24: the categories give 4 points per email field, 3 per message field
\* and 2 per name field, whatever the number of keywords a field matches,
\* and a form is classified as a contact form exactly if its final score is
\* at least 5.
C24_CategoryOncePerField ==
    \A p \in Procs : \A k \in 1..Len(fa[p].log) :
        LET e == fa[p].log[k]
        IN  /\ e.heuristic - OtherPoints(e.form)
                 = 4 * Cardinality(FieldsThat(IsEmailField, e.form))
                     + 3 * Cardinality(FieldsThat(IsMessageField, e.form))
                     + 2 * Cardinality(FieldsThat(IsNameField, e.form))
            /\ e.final = e.heuristic + e.delta
            /\ e.is_contact <=> e.final >= 5

\* C24 witness: a form with two email fields, one of which matches two email
\* keywords, was scored.
C24_Witness ==
    \E p \in Procs : \E k \in 1..Len(fa[p].log) :
        LET form == fa[p].log[k].form
        IN  /\ Cardinality(FieldsThat(IsEmailField, form)) = 2
            /\ \E i \in 1..Len(form.fields) :
                  Hits(FORM_KEYWORDS.email, FieldText(form.fields[i])) >= 2

C25_SkippedRunInLoop ==
    \E p \in Procs :
        pc[p] = "loop" /\ skip_sitemap[p] /\ ~hist[p].home_failed

(***************************************************************************)
(* Trailing slashes (Spec)                                                 *)
(***************************************************************************)
\* two URLs that differ only by a trailing slash
SlashTwins(u, v) == u = v \o <<"/">> \/ v = u \o <<"/">>

\* C26: the contact-form pages never hold two URLs that differ only by a
\* trailing slash, and the visit loop never fetches two such URLs.
C26_NoSlashTwins ==
    \A p \in Procs :
        /\ \A u, v \in contact_form_pages[p] : ~SlashTwins(u, v)
        /\ \A u, v \in VisitedUrls(p) : ~SlashTwins(u, v)

(***************************************************************************)
(* Findings per keyword group (Spec)                                       *)
(***************************************************************************)
\* the visits of instance p that produced a finding on a URL of `group`
FindingsOf(p, group) ==
    {i \in 1..Len(Visited(p)) :
        Visited(p)[i].found /\ _get_url_keyword_group(Visited(p)[i].url) = group}

\* C28: in one run each keyword group has at most one fetched URL with a
\* finding; the groups marked successful are exactly those with one, the
\* fetched URLs follow the sorted order, and the emails, the contact-form
\* pages and the successful groups only grow.
C28_OneFindingPerGroup ==
    /\ [](\A p \in Procs :
            /\ \A group \in {GroupNames[g] : g \in 1..Len(GroupNames)} :
                  /\ Cardinality(FindingsOf(p, group)) <= 1
                  /\ group \in successful_groups[p] <=> FindingsOf(p, group) # {}
            /\ \A i, j \in 1..Len(Visited(p)) :
                  i < j => StrLess(Visited(p)[i].url, Visited(p)[j].url))
    /\ [][\A p \in Procs :
            /\ emails[p] \subseteq emails'[p]
            /\ contact_form_pages[p] \subseteq contact_form_pages'[p]
            /\ successful_groups[p] \subseteq successful_groups'[p]]_vars

\* C28 witness: the loop ended with two groups marked, each by one finding,
\* and with a skipped URL.
C28_Witness ==
    \E p \in Procs :
        /\ pc[p] = "returned"
        /\ Cardinality(successful_groups[p]) >= 2
        /\ \A group \in successful_groups[p] : Cardinality(FindingsOf(p, group)) = 1
        /\ hist[p].skipped # <<>>

(***************************************************************************)
(* SpecTask: a single-site task, a batch task, and the delete requests     *)
(***************************************************************************)
DA == <<"http", "://", "a.com">>
DB == <<"http", "://", "b.com">>
DY == <<"http", "://", "www.", "youtube", ".com">>

\* the batch requests: whether the search is configured, skip_sitemap, and
\* the domains of the results the search gives
BatchRequest(configured, skip, search_results) ==
    [configured |-> configured, skip_sitemap |-> skip, search_results |-> search_results]

BatchRequests ==
    { BatchRequest(FALSE, FALSE, <<DA>>),
      BatchRequest(TRUE, FALSE, <<>>),
      BatchRequest(TRUE, TRUE, <<DA>>),
      BatchRequest(TRUE, FALSE, <<DA, DB, DA>>),
      BatchRequest(TRUE, FALSE, <<DY, DA, DY>>) }

Outcomes == {"dict", "none", "raises"}

InitTask ==
    /\ site = Blank(IdleSite, IdleSite)
    /\ skip_sitemap = Blank(FALSE, FALSE)
    /\ entry = Blank("off", "off")
    /\ pc = Blank("off", "off")
    /\ InitRest

\* the steps of the background run of task t
RunStep(t) ==
    \/ \E outcome \in Outcomes : RunSingleSite(t, outcome)
    \/ RunBatchSearch(t)
    \/ \E outcome \in Outcomes : ParseDomain(t, outcome)
    \/ AddParsedSite(t)
    \/ CompleteTask(t)
    \/ FailTask(t)

NextTask ==
    \/ ParseSingleSite(1)
    \/ \E request \in BatchRequests :
          ParseBatchSites(2, request.configured, request.skip_sitemap,
                          request.search_results)
    \/ \E t \in TaskIds :
          \/ RunStep(t)
          \/ DeleteTaskCheck(t)
    \/ DeleteTaskCommit

SpecTask == InitTask /\ [][NextTask]_vars

\* A background run is a function that the thread pool runs to its end:
\* every request of the parser has a timeout and every loop is bounded, so
\* a run that can take a step takes it.
SpecTaskLive == InitTask /\ [][NextTask]_vars /\ \A t \in TaskIds : WF_vars(RunStep(t))

(***************************************************************************)
(* Batch mode (SpecTask)                                                   *)
(***************************************************************************)
\* the loop of _parse_domains of the batch run of task t has ended
DomainsParsed(t) ==
    /\ run[t].task_type = "batch_parse"
    /\ bp[t].unique_domains # <<>>
    /\ bp[t].i > Len(bp[t].unique_domains)

\* the domains that the search of task t discovered
Discovered(t) == {bp[t].search_results[j] : j \in 1..Len(bp[t].search_results)}

\* C27: a batch run parses each discovered domain once and records one entry
\* for it, with status success, failed or error, whatever happened to the
\* domains before it; the rows it stores are one per domain; a domain is
\* parsed without sitemap exactly if skip_sitemap was requested or the domain
\* contains a name of the large-site list.
C27_BatchOneEntryPerDomain ==
    \A t \in TaskIds :
        /\ \A j \in 1..Len(bp[t].parsed) :
              /\ bp[t].parsed[j].domain \in Discovered(t)
              /\ bp[t].parsed[j].skip_sitemap
                    <=> ( \/ bp[t].skip_sitemap
                          \/ \E large \in large_sites :
                                Contains(large, Lower(bp[t].parsed[j].domain)) )
        /\ \A j, k \in 1..Len(bp[t].parsed) :
              j # k => bp[t].parsed[j].domain # bp[t].parsed[k].domain
        /\ DomainsParsed(t) =>
              /\ \A domain \in Discovered(t) :
                    /\ Cardinality({j \in 1..Len(bp[t].parsed) :
                                       bp[t].parsed[j].domain = domain}) = 1
                    /\ Cardinality({j \in 1..Len(bp[t].all_results) :
                                       bp[t].all_results[j].domain = domain}) = 1
              /\ Len(bp[t].all_results) = Cardinality(Discovered(t))
              /\ \A j \in 1..Len(bp[t].all_results) :
                    bp[t].all_results[j].status \in {"success", "failed", "error"}
              /\ (run[t].pc \in {"complete", "done"} /\ get_task(db, t)) =>
                    \A domain \in Discovered(t) :
                        Cardinality({j \in 1..Len(db.sites) :
                                        /\ db.sites[j].task_id = t
                                        /\ db.sites[j].domain = domain}) = 1

\* C27 witness: a search gave a large site twice and another domain; the
\* parse of the large site raised, the other domain was parsed after it, with
\* its sitemap, and the run ended.
C27_Witness ==
    \E t \in TaskIds :
        /\ DomainsParsed(t)
        /\ run[t].pc = "done"
        /\ Len(bp[t].search_results) > Len(bp[t].parsed)
        /\ Len(bp[t].parsed) = 2
        /\ bp[t].parsed[1].outcome = "raises"
        /\ bp[t].parsed[1].skip_sitemap
        /\ bp[t].parsed[2].outcome = "dict"
        /\ ~bp[t].parsed[2].skip_sitemap

(***************************************************************************)
(* Deletion and the life of a task (SpecTask, SpecTaskLive)                *)
(***************************************************************************)
Terminal == {"COMPLETED", "FAILED"}

\* C29: whatever the interleaving of delete requests and background runs, a
\* task is deleted only while it is COMPLETED or FAILED; a delete request
\* that finds the task RUNNING is answered 400 and changes no row; every
\* parsed site is added to a stored task, so none belongs to a deleted one.
C29_DeleteOnlyFinishedTasks ==
    /\ [][\A t \in TaskIds :
            (db.tasks[t].state = "stored" /\ db'.tasks[t].state = "deleted")
            => db.tasks[t].status \in Terminal]_vars
    /\ [][(req.pc = "idle" /\ req' # req /\ req.pc' = "idle"
              /\ req'.last.seen = "RUNNING")
            => (req'.last.code = 400 /\ db' = db)]_vars
    /\ [][Len(db'.sites) > Len(db.sites)
            => /\ db.tasks[db'.sites[Len(db'.sites)].task_id].state = "stored"
               /\ db'.tasks[db'.sites[Len(db'.sites)].task_id].state = "stored"]_vars
    /\ [](\A j \in 1..Len(db.sites) : db.tasks[db.sites[j].task_id].state = "stored")
    /\ [](req.pc = "checked" => db.tasks[req.task_id].status \in Terminal)

\* C29 witness: one task was deleted after it finished; the batch run of the
\* other has stored a site and is still running, and the delete request for
\* it was just rejected.
C29_Witness ==
    \E t, u \in TaskIds :
        /\ db.tasks[t].state = "deleted"
        /\ db.tasks[u].state = "stored"
        /\ db.tasks[u].status = "RUNNING"
        /\ run[u].pc = "store"
        /\ \E j \in 1..Len(db.sites) : db.sites[j].task_id = u
        /\ req.last = [task_id |-> u, seen |-> "RUNNING", code |-> 400]

\* C30: a task is created RUNNING with completed_at NULL; a finished task
\* keeps its status and has completed_at set; every background run, of a
\* single site or of a batch, goes on to leave its task COMPLETED or FAILED
\* with completed_at set, also when the parser raises.
C30_TaskLifecycle ==
    /\ [][\A t \in TaskIds :
            /\ (db.tasks[t].state = "none" /\ db'.tasks[t].state # "none")
               => (db'.tasks[t].status = "RUNNING" /\ ~db'.tasks[t].completed_at)
            /\ db.tasks[t].status \in Terminal
               => db'.tasks[t].status = db.tasks[t].status]_vars
    /\ [](\A t \in TaskIds :
            /\ db.tasks[t].status \in Terminal => db.tasks[t].completed_at
            /\ run[t].pc = "done" => db.tasks[t].status \in Terminal)
    /\ \A t \in TaskIds :
          (run[t].pc = "start")
             ~> (run[t].pc = "done" /\ db.tasks[t].status \in Terminal
                    /\ db.tasks[t].completed_at)

\* C30 witness: both runs ended; the parser of the single-site run raised and
\* its task is FAILED, the batch run stored sites and its task is COMPLETED.
C30_Witness ==
    /\ run[1].pc = "done"
    /\ run[1].sites = <<>>
    /\ db.tasks[1].status = "FAILED"
    /\ db.tasks[1].completed_at
    /\ run[2].pc = "done"
    /\ db.tasks[2].status = "COMPLETED"
    /\ db.tasks[2].completed_at
    /\ Len(run[2].sites) = 2

=============================================================================
